---- MODULE Spec2Model ----
(***************************************************************************)
(* Model of cpp/HybridHttpServer.cpp: the bridge between the native HTTP   *)
(* engine (rn_http_server.h) and the application handler.                  *)
(*                                                                         *)
(*  - g_serverContext / g_contextMutex : the process-wide handler slot     *)
(*  - c_request_callback               : engine thread, one per record     *)
(*  - Promise<variant<HttpResponse, Promise<HttpResponse>>> : the result   *)
(*    of a handler call and the listeners the callback attaches to it      *)
(*  - start / startAppServer / startServerWithConfig / stop /              *)
(*    stopAppServer / isRunning / sendResponse / sendBinaryResponse :      *)
(*    each is a call on the application thread that queues a               *)
(*    Promise::async task, run later by a pool thread                      *)
(*  - serializeHeaders and the header parser of c_request_callback, as     *)
(*    operators over sequences of characters                               *)
(*  - the translation of an engine record into an HttpRequest (headers,    *)
(*    body or binaryBody)                                                  *)
(*  - g_wsHandler / c_websocket_callback / setWebSocketHandler, and        *)
(*    wsSendText / wsSendBinary / wsClose                                  *)
(*  - readRequestBodyChunk / writeResponseChunk / endResponse              *)
(*  - g_contextMutex / g_wsHandlerMutex as explicit state, with the        *)
(*    lock_guard blocks of the callbacks, of the tasks and of              *)
(*    setWebSocketHandler                                                  *)
(***************************************************************************)
EXTENDS Integers, Sequences, FiniteSets, TLC

\* ------------------------------------------------------------------ bounds
\* engine records delivered to c_request_callback (distinct request_id each)
MaxRequests == 2
\* API calls made by the application (each queues one Promise::async task)
MaxCalls == 2

Records == 1..MaxRequests
Calls == 1..MaxCalls

\* cRequest->request_id of record r: ids are distinct per record
request_id(r) == r

\* ------------------------------------------------------------ value domain
Handlers == {"h1", "h2"}
\* an empty std::function (handler == nullptr)
NoHandler == "nullptr"
\* g_serverContext == nullptr
NullContext == [allocated |-> FALSE, handler |-> NoHandler]

StartOps == {"start", "startAppServer", "startServerWithConfig"}
StopOps == {"stop", "stopAppServer"}

VARIABLES
  g_serverContext,   \* [allocated, handler]: the static ServerContext*
  engineListening,   \* engine side: the HTTP socket is open
  onRequest,         \* engine side: c_request_callback has been handed over
  cb_pc,             \* position of c_request_callback for each record
  cb_handler,        \* its local copy `handler`
  cb_requestId,      \* its local `requestId`, captured by the listeners
  outer,             \* state of responsePromise returned by the handler
  inner,             \* state of the Promise<HttpResponse> it resolved to
  result,            \* the HttpResponse the handler produced
  lst_pc,            \* position of the outer resolved-listener (inner registration)
  handlerCalls,      \* per record: handlers invoked with it, in order
  freed,             \* per record: number of free_http_request calls
  sendLog,           \* per request id: the send_response calls the engine saw
  tasks,             \* Promise::async tasks, by call number
  nCalls,            \* API calls made so far
  slotOps,           \* history: the last write to the slot and what it wrote
  hdrIn,             \* codec: header mapping given to serializeHeaders
  hdrOrder,          \* codec: iteration order of the unordered_map
  hdrJson,           \* codec: headers_json string
  hdrOut,            \* codec: request.headers after parsing
  codec_pc,          \* codec: position
  cRequest,          \* translation: the engine record given to c_request_callback
  request,           \* translation: the HttpRequest built from it
  tr_pc,             \* translation: position
  hdrIntact,         \* history: pairs of headers_json before its first deviation
  g_wsHandler,       \* the static WebSocket handler slot
  wsCallbackSet,     \* engine side: c_websocket_callback has been handed over
  setws_pc,          \* position of setWebSocketHandler on the application thread
  ws_pc,             \* position of c_websocket_callback, per connection
  ws_event,          \* the cEvent it was called with
  ws_handler,        \* its local copy `handler`
  wsDelivered,       \* events the engine has delivered so far
  wsHandled,         \* per connection: the events the handler was invoked with
  wsRunning,         \* per connection: a handler invocation has not completed
  engineLog,         \* streaming and WebSocket calls the engine saw, in order
  engineRet,         \* history: what the engine returned to the task of a call
  callArgs,          \* history: the arguments a call was made with
  jsBuffer,          \* the ArrayBuffer the application holds
  g_contextMutex,    \* the thread that holds g_contextMutex, or Free
  g_wsHandlerMutex,  \* the thread that holds g_wsHandlerMutex, or Free
  setws_by,          \* the thread inside setWebSocketHandler, or Free
  setws_lk,          \* its position relative to its lock_guard block
  wsLockedAt         \* history: wsDelivered when a callback took g_wsHandlerMutex

bridgeVars == <<g_serverContext, engineListening, onRequest, cb_pc, cb_handler,
                cb_requestId, outer, inner, result, lst_pc, handlerCalls, freed,
                sendLog, tasks, nCalls, slotOps>>
codecVars == <<hdrIn, hdrOrder, hdrJson, hdrOut, codec_pc>>
trVars == <<cRequest, request, tr_pc, hdrIntact>>
wsVars == <<g_wsHandler, wsCallbackSet, setws_pc, ws_pc, ws_event, ws_handler,
            wsDelivered, wsHandled, wsRunning>>
ioVars == <<engineLog, engineRet, callArgs, jsBuffer>>
lockVars == <<g_contextMutex, g_wsHandlerMutex, setws_by, setws_lk, wsLockedAt>>
vars == <<g_serverContext, engineListening, onRequest, cb_pc, cb_handler,
          cb_requestId, outer, inner, result, lst_pc, handlerCalls, freed,
          sendLog, tasks, nCalls, slotOps, hdrIn, hdrOrder, hdrJson, hdrOut,
          codec_pc, cRequest, request, tr_pc, hdrIntact, g_wsHandler, wsCallbackSet,
          setws_pc, ws_pc, ws_event, ws_handler, wsDelivered, wsHandled,
          wsRunning, engineLog, engineRet, callArgs, jsBuffer, g_contextMutex,
          g_wsHandlerMutex, setws_by, setws_lk, wsLockedAt>>

\* ---------------------------------------------------------------- strings
\* A std::string is a sequence of one-character strings.
QUOTE == "\""
BSLASH == "\\"
NEWLINE == "\n"
TAB == "\t"
\* std::isspace in the "C" locale (the vertical tab has no TLA+ literal and
\* is not in the alphabet of the model)
IsSpace(c) == c \in {" ", TAB, NEWLINE, "\r", "\f"}

\* jsonStr[pos] with the code's 0-based positions
At(s, pos) == s[pos + 1]
\* jsonStr.substr(start, count)
Substr(s, start, count) == SubSeq(s, start + 1, start + count)

\* escapeJson escaping the quote only
RECURSIVE escapeJson_quoteOnly(_)
escapeJson_quoteOnly(str) ==
  IF str = <<>> THEN <<>>
  ELSE (IF Head(str) = QUOTE THEN <<BSLASH>> ELSE <<>>)
         \o <<Head(str)>> \o escapeJson_quoteOnly(Tail(str))

\* the escapeJson lambda of serializeHeaders: a backslash before '"' and '\'
RECURSIVE escapeJson(_)
escapeJson(str) ==
  IF str = <<>> THEN <<>>
  ELSE (IF Head(str) = QUOTE \/ Head(str) = BSLASH THEN <<BSLASH>> ELSE <<>>)
         \o <<Head(str)>> \o escapeJson(Tail(str))

\* the loop body of serializeHeaders over the pairs in iteration order
RECURSIVE serializePairs(_, _, _)
serializePairs(headers, order, first) ==
  IF order = <<>> THEN <<>>
  ELSE (IF first THEN <<>> ELSE <<",">>)
         \o <<QUOTE>> \o escapeJson(Head(order)) \o <<QUOTE, ":", QUOTE>>
         \o escapeJson(headers[Head(order)]) \o <<QUOTE>>
         \o serializePairs(headers, Tail(order), FALSE)

\* serializeHeaders: `headers` is the mapping (the empty function for an
\* absent or empty optional), `order` the order the unordered_map iterates in
serializeHeaders(headers, order) ==
  IF DOMAIN headers = {} THEN <<"{", "}">>
  ELSE <<"{">> \o serializePairs(headers, order, TRUE) \o <<"}">>

\* the unescape lambda of the header parser
RECURSIVE unescapeFrom(_, _)
unescapeFrom(str, i) ==
  IF ~(i < Len(str)) THEN <<>>
  ELSE IF At(str, i) = BSLASH /\ i + 1 < Len(str)
       THEN LET next == At(str, i + 1) IN
            IF next = QUOTE \/ next = BSLASH \/ next = "/"
              THEN <<next>> \o unescapeFrom(str, i + 2)
            ELSE IF next = "n" THEN <<NEWLINE>> \o unescapeFrom(str, i + 2)
            ELSE IF next = "t" THEN <<TAB>> \o unescapeFrom(str, i + 2)
            ELSE <<At(str, i)>> \o unescapeFrom(str, i + 1)
       ELSE <<At(str, i)>> \o unescapeFrom(str, i + 1)

unescape(str) == unescapeFrom(str, 0)

\* SkipChars running on to the next quote, whatever lies before it
RECURSIVE SkipChars_toQuote(_, _, _)
SkipChars_toQuote(s, pos, extra) ==
  IF pos < Len(s) /\ At(s, pos) # QUOTE
  THEN SkipChars_toQuote(s, pos + 1, extra)
  ELSE pos

\* while (pos < length && (isspace(jsonStr[pos]) || jsonStr[pos] is in extra)) pos++
RECURSIVE SkipChars(_, _, _)
SkipChars(s, pos, extra) ==
  IF pos < Len(s) /\ (IsSpace(At(s, pos)) \/ At(s, pos) \in extra)
  THEN SkipChars(s, pos + 1, extra)
  ELSE pos

\* the scan to the closing quote; an escaped character is skipped as a pair
RECURSIVE ScanQuoted(_, _)
ScanQuoted(s, pos) ==
  IF pos < Len(s) /\ At(s, pos) # QUOTE
  THEN IF At(s, pos) = BSLASH /\ pos + 1 < Len(s)
       THEN ScanQuoted(s, pos + 2)
       ELSE ScanQuoted(s, pos + 1)
  ELSE pos

\* request.headers[key] = value
PutHeader(headers, key, value) ==
  [k \in (DOMAIN headers) \cup {key} |-> IF k = key THEN value ELSE headers[k]]

EmptyHeaders == [k \in {} |-> <<>>]

\* the while loop of the header parser, from position pos with the pairs
\* parsed so far; every `break` returns the mapping as it stands
RECURSIVE ParseLoop(_, _, _)
ParseLoop(s, pos, headers) ==
  IF ~(pos < Len(s) - 1) THEN headers
  ELSE
    LET p1 == SkipChars(s, pos, {}) IN
    IF p1 >= Len(s) - 1 \/ At(s, p1) = "}" THEN headers
    ELSE IF At(s, p1) # QUOTE THEN headers
    ELSE
      LET keyStart == p1 + 1
          p2 == ScanQuoted(s, keyStart)
      IN
      IF p2 >= Len(s) THEN headers
      ELSE
        LET key == Substr(s, keyStart, p2 - keyStart)
            p3 == SkipChars(s, p2 + 1, {":"})
        IN
        IF p3 >= Len(s) \/ At(s, p3) # QUOTE THEN headers
        ELSE
          LET valueStart == p3 + 1
              p4 == ScanQuoted(s, valueStart)
          IN
          IF p4 >= Len(s) THEN headers
          ELSE
            LET value == Substr(s, valueStart, p4 - valueStart)
                p5 == SkipChars(s, p4 + 1, {","})
            IN ParseLoop(s, p5, PutHeader(headers, unescape(key), unescape(value)))

\* HasBraces testing the opening brace only
HasBraces_openOnly(s) == Len(s) >= 2 /\ At(s, 0) = "{"

\* whole-string guard of the header parser
HasBraces(s) == Len(s) >= 2 /\ At(s, 0) = "{" /\ At(s, Len(s) - 1) = "}"

\* the header parser of c_request_callback applied to cRequest->headers_json
ParseHeaders(jsonStr) ==
  IF Len(jsonStr) > 0 /\ HasBraces(jsonStr)
  THEN ParseLoop(jsonStr, 1, EmptyHeaders)
  ELSE EmptyHeaders

\* -------------------------------------------------------------- responses
\* HttpResponse {statusCode, headers, body}; an absent body is ""
HandlerResponses ==
  { [statusCode |-> 200,
     headers |-> [k \in {<<"a">>} |-> <<"b">>],
     body |-> "ok"] }

\* placeholder while no HttpResponse exists
NoResponse == [statusCode |-> 0, headers |-> EmptyHeaders, body |-> ""]

\* errorResp with the body left unset
ErrorResponse_noBody ==
  [statusCode |-> 500, headers |-> EmptyHeaders, body |-> ""]

\* errorResp of the two rejection listeners
ErrorResponse ==
  [statusCode |-> 500, headers |-> EmptyHeaders, body |-> "Internal Server Error"]

\* an iteration order of the unordered_map (any one; the maps of the bridge
\* actions have at most one entry)
RECURSIVE SomeOrder(_)
SomeOrder(keys) ==
  IF keys = {} THEN <<>>
  ELSE LET k == CHOOSE x \in keys : TRUE IN <<k>> \o SomeOrder(keys \ {k})

\* the send_response call as the engine records it, under the id passed
EngineSend(log, requestId, statusCode, headersJson, body, via, origin) ==
  [log EXCEPT ![requestId] =
     Append(@, [statusCode |-> statusCode, headersJson |-> headersJson,
                body |-> body, via |-> via, origin |-> origin])]

\* extractAndSendResponse(requestId, response) called for record `origin`
extractAndSendResponse(log, requestId, response, origin) ==
  EngineSend(log, requestId, response.statusCode,
             serializeHeaders(response.headers, SomeOrder(DOMAIN response.headers)),
             response.body, "dispatch", origin)

\* ------------------------------------------------------------------ tasks
NoSend == [requestId |-> 0, statusCode |-> 0, headersJson |-> <<>>, body |-> ""]
NoTask == [op |-> "none", pc |-> "none", handler |-> NoHandler,
           send |-> NoSend, result |-> "none"]

\* bool results of the tasks
BoolResult(b) == IF b THEN "true" ELSE "false"

\* a task that ran: its captures are destroyed, its promise holds the result
Done(task, res) == [NoTask EXCEPT !.op = task.op, !.pc = "done", !.result = res]

\* ------------------------------------- translation, WebSocket, buffers
\* a char* of an engine record: null, or pointing at bytes
NullPtr == <<>>
Ptr(bytes) == <<bytes>>
\* a std::optional: unset, or holding a value
Absent == <<>>
Some(v) == <<v>>
NoRecord == [headers_json |-> <<>>, body |-> NullPtr]
NoRequest == [headers |-> EmptyHeaders, body |-> Absent, binaryBody |-> Absent]

\* connection_id values of the engine's WebSocket connections
WsConnections == {"c1", "c2"}
NoEvent == [seq |-> 0, event_type |-> 0]

\* an ArrayBuffer of the application: its bytes, and whether it still has
\* them (a released buffer has data() == nullptr)
BufferContents == {"", "x", "y"}
NoBuffer == [bytes |-> "", live |-> TRUE]
NoArgs == [method |-> "none"]

trInit ==
  /\ cRequest = NoRecord
  /\ request = NoRequest
  /\ tr_pc = "none"
  /\ hdrIntact = 0

wsInit ==
  /\ g_wsHandler = NoHandler
  /\ wsCallbackSet = FALSE
  /\ setws_pc = "idle"
  /\ ws_pc = [conn \in WsConnections |-> "idle"]
  /\ ws_event = [conn \in WsConnections |-> NoEvent]
  /\ ws_handler = [conn \in WsConnections |-> NoHandler]
  /\ wsDelivered = 0
  /\ wsHandled = [conn \in WsConnections |-> <<>>]
  /\ wsRunning = [conn \in WsConnections |-> FALSE]

ioInit ==
  /\ engineLog = <<>>
  /\ engineRet = [c \in Calls |-> "none"]
  /\ callArgs = [c \in Calls |-> NoArgs]
  /\ jsBuffer = NoBuffer

\* no thread holds a mutex or is inside setWebSocketHandler
Free == 0

lockInit ==
  /\ g_contextMutex = Free
  /\ g_wsHandlerMutex = Free
  /\ setws_by = Free
  /\ setws_lk = "none"
  /\ wsLockedAt = 0

\* ------------------------------------------------------------------- Init
Init ==
  /\ g_serverContext = NullContext
  /\ engineListening = FALSE
  /\ onRequest = FALSE
  /\ cb_pc = [r \in Records |-> "idle"]
  /\ cb_handler = [r \in Records |-> NoHandler]
  /\ cb_requestId = [r \in Records |-> 0]
  /\ outer = [r \in Records |-> "none"]
  /\ inner = [r \in Records |-> "none"]
  /\ result = [r \in Records |-> NoResponse]
  /\ lst_pc = [r \in Records |-> "idle"]
  /\ handlerCalls = [r \in Records |-> <<>>]
  /\ freed = [r \in Records |-> 0]
  /\ sendLog = [r \in Records |-> <<>>]
  /\ tasks = [c \in Calls |-> NoTask]
  /\ nCalls = 0
  /\ slotOps = [kind |-> "none", handler |-> NoHandler]
  /\ hdrIn = EmptyHeaders
  /\ hdrOrder = <<>>
  /\ hdrJson = <<>>
  /\ hdrOut = EmptyHeaders
  /\ codec_pc = "build"
  /\ trInit /\ wsInit /\ ioInit /\ lockInit

\* ------------------------------------------------- application-thread calls
\* queue the Promise::async task of call number nCalls + 1
Queue(task) ==
  /\ nCalls < MaxCalls
  /\ nCalls' = nCalls + 1
  /\ tasks' = [tasks EXCEPT ![nCalls + 1] = task]

\* start(port, handler, host), startAppServer(...), startServerWithConfig(...)
CallStart(op, h) ==
  /\ Queue([NoTask EXCEPT !.op = op, !.pc = "install", !.handler = h,
                          !.result = "pending"])
  /\ UNCHANGED <<g_serverContext, engineListening, onRequest, cb_pc, cb_handler,
                 cb_requestId, outer, inner, result, lst_pc, handlerCalls, freed,
                 sendLog, slotOps>>
  /\ UNCHANGED <<codecVars, trVars, wsVars, ioVars, lockVars>>

\* stop(), stopAppServer()
CallStop(op) ==
  /\ Queue([NoTask EXCEPT !.op = op, !.pc = "engine", !.result = "pending"])
  /\ UNCHANGED <<g_serverContext, engineListening, onRequest, cb_pc, cb_handler,
                 cb_requestId, outer, inner, result, lst_pc, handlerCalls, freed,
                 sendLog, slotOps>>
  /\ UNCHANGED <<codecVars, trVars, wsVars, ioVars, lockVars>>

\* isRunning()
CallIsRunning ==
  /\ Queue([NoTask EXCEPT !.op = "isRunning", !.pc = "read", !.result = "pending"])
  /\ UNCHANGED <<g_serverContext, engineListening, onRequest, cb_pc, cb_handler,
                 cb_requestId, outer, inner, result, lst_pc, handlerCalls, freed,
                 sendLog, slotOps>>
  /\ UNCHANGED <<codecVars, trVars, wsVars, ioVars, lockVars>>

\* sendResponse(requestId, response): bodyStr, headersJson and statusCode are
\* computed on the calling thread; the id is one a handler was invoked with
CallSendResponse(id, response) ==
  /\ handlerCalls[id] # <<>>
  /\ Queue([NoTask EXCEPT
       !.op = "sendResponse", !.pc = "send", !.result = "pending",
       !.send = [requestId |-> id, statusCode |-> response.statusCode,
                 headersJson |-> serializeHeaders(response.headers,
                                   SomeOrder(DOMAIN response.headers)),
                 body |-> response.body]])
  /\ UNCHANGED <<g_serverContext, engineListening, onRequest, cb_pc, cb_handler,
                 cb_requestId, outer, inner, result, lst_pc, handlerCalls, freed,
                 sendLog, slotOps>>
  /\ UNCHANGED <<codecVars, trVars, wsVars, ioVars, lockVars>>

\* sendBinaryResponse(requestId, statusCode, headersJson, body): the buffer is
\* copied into binaryData on the calling thread
CallSendBinaryResponse(id, statusCode, headersJson, body) ==
  /\ handlerCalls[id] # <<>>
  /\ Queue([NoTask EXCEPT
       !.op = "sendBinaryResponse", !.pc = "send", !.result = "pending",
       !.send = [requestId |-> id, statusCode |-> statusCode,
                 headersJson |-> headersJson, body |-> body]])
  /\ UNCHANGED <<g_serverContext, engineListening, onRequest, cb_pc, cb_handler,
                 cb_requestId, outer, inner, result, lst_pc, handlerCalls, freed,
                 sendLog, slotOps>>
  /\ callArgs' = [callArgs EXCEPT ![nCalls + 1] =
                   [method |-> "sendBinaryResponse", requestId |-> id,
                    statusCode |-> statusCode, headersJson |-> headersJson,
                    body |-> body]]
  /\ UNCHANGED <<engineLog, engineRet, jsBuffer>>
  /\ UNCHANGED <<codecVars, trVars, wsVars, lockVars>>

\* ~HybridHttpServer(): deletes the context of every instance
Destroy ==
  /\ g_serverContext.allocated
  /\ g_serverContext' = NullContext
  /\ slotOps' = [kind |-> "destroy", handler |-> NoHandler]
  /\ UNCHANGED <<engineListening, onRequest, cb_pc, cb_handler, cb_requestId,
                 outer, inner, result, lst_pc, handlerCalls, freed, sendLog,
                 tasks, nCalls>>
  /\ UNCHANGED <<codecVars, trVars, wsVars, ioVars, lockVars>>

\* ------------------------------------------------------ Promise::async tasks
\* InstallHandler keeping a handler that is already installed
InstallHandler_keepFirst(ctx, h) ==
  IF ctx.allocated /\ ctx.handler # NoHandler
  THEN ctx
  ELSE [allocated |-> TRUE, handler |-> h]

\* the locked block of start / startAppServer / startServerWithConfig:
\* create the context if there is none, then overwrite its handler
InstallHandler(ctx, h) == [allocated |-> TRUE, handler |-> h]

\* ClearHandler leaving the handler in place
ClearHandler_keepsHandler(ctx) == ctx

\* the locked block of stop / stopAppServer: null the handler of an existing
\* context
ClearHandler(ctx) ==
  IF ctx.allocated THEN [ctx EXCEPT !.handler = NoHandler] ELSE ctx

\* the locked read of isRunning
IsRunningRead(ctx) == ctx.allocated /\ ctx.handler # NoHandler

\* start task, first half: install the handler under g_contextMutex
TaskInstall(c) ==
  /\ tasks[c].op \in StartOps
  /\ tasks[c].pc = "install"
  /\ g_serverContext' = InstallHandler(g_serverContext, tasks[c].handler)
  /\ slotOps' = [kind |-> "install", handler |-> tasks[c].handler]
  /\ tasks' = [tasks EXCEPT ![c].pc = "engine"]
  /\ UNCHANGED <<engineListening, onRequest, cb_pc, cb_handler, cb_requestId,
                 outer, inner, result, lst_pc, handlerCalls, freed, sendLog,
                 nCalls>>
  /\ UNCHANGED <<codecVars, trVars, wsVars, ioVars, lockVars>>

\* start task, second half: start_server / start_app_server /
\* start_server_with_config with c_request_callback; the engine answers
\* `success`, and the task resolves to it
TaskStartEngine(c, success) ==
  /\ tasks[c].op \in StartOps
  /\ tasks[c].pc = "engine"
  /\ engineListening' = (engineListening \/ success)
  /\ onRequest' = (onRequest \/ success)
  /\ tasks' = [tasks EXCEPT ![c] = Done(@, BoolResult(success))]
  /\ UNCHANGED <<g_serverContext, cb_pc, cb_handler, cb_requestId, outer, inner,
                 result, lst_pc, handlerCalls, freed, sendLog, nCalls, slotOps>>
  /\ UNCHANGED <<codecVars, trVars, wsVars, ioVars, lockVars>>

\* stop task, first half: stop_server() / stop_app_server()
TaskStopEngine(c) ==
  /\ tasks[c].op \in StopOps
  /\ tasks[c].pc = "engine"
  /\ engineListening' = FALSE
  /\ tasks' = [tasks EXCEPT ![c].pc = "clear"]
  /\ UNCHANGED <<g_serverContext, onRequest, cb_pc, cb_handler, cb_requestId,
                 outer, inner, result, lst_pc, handlerCalls, freed, sendLog,
                 nCalls, slotOps>>
  /\ UNCHANGED <<codecVars, trVars, wsVars, ioVars, lockVars>>

\* stop task, second half: clear the handler under g_contextMutex
TaskClear(c) ==
  /\ tasks[c].op \in StopOps
  /\ tasks[c].pc = "clear"
  /\ g_serverContext' = ClearHandler(g_serverContext)
  /\ slotOps' = IF g_serverContext.allocated
                THEN [kind |-> "clear", handler |-> NoHandler]
                ELSE slotOps
  /\ tasks' = [tasks EXCEPT ![c] = Done(@, "void")]
  /\ UNCHANGED <<engineListening, onRequest, cb_pc, cb_handler, cb_requestId,
                 outer, inner, result, lst_pc, handlerCalls, freed, sendLog,
                 nCalls>>
  /\ UNCHANGED <<codecVars, trVars, wsVars, ioVars, lockVars>>

\* TaskIsRunning answering from the engine's socket state
TaskIsRunning_socket(c) ==
  /\ tasks[c].op = "isRunning"
  /\ tasks[c].pc = "read"
  /\ tasks' = [tasks EXCEPT ![c] = Done(@, BoolResult(engineListening))]
  /\ UNCHANGED <<g_serverContext, engineListening, onRequest, cb_pc, cb_handler,
                 cb_requestId, outer, inner, result, lst_pc, handlerCalls, freed,
                 sendLog, nCalls, slotOps>>
  /\ UNCHANGED <<codecVars, trVars, wsVars, ioVars, lockVars>>

\* isRunning task
TaskIsRunning(c) ==
  /\ tasks[c].op = "isRunning"
  /\ tasks[c].pc = "read"
  /\ tasks' = [tasks EXCEPT
       ![c] = Done(@, BoolResult(IsRunningRead(g_serverContext)))]
  /\ UNCHANGED <<g_serverContext, engineListening, onRequest, cb_pc, cb_handler,
                 cb_requestId, outer, inner, result, lst_pc, handlerCalls, freed,
                 sendLog, nCalls, slotOps>>
  /\ UNCHANGED <<codecVars, trVars, wsVars, ioVars, lockVars>>

\* TaskSend calling send_response a second time when the engine answers false
TaskSend_retries(c, ok) ==
  /\ tasks[c].op \in {"sendResponse", "sendBinaryResponse"}
  /\ tasks[c].pc = "send"
  /\ LET once == EngineSend(sendLog, tasks[c].send.requestId,
                            tasks[c].send.statusCode, tasks[c].send.headersJson,
                            tasks[c].send.body, tasks[c].op, c)
     IN sendLog' = IF ok THEN once
                   ELSE EngineSend(once, tasks[c].send.requestId,
                                   tasks[c].send.statusCode,
                                   tasks[c].send.headersJson,
                                   tasks[c].send.body, tasks[c].op, c)
  /\ tasks' = [tasks EXCEPT ![c] = Done(@, BoolResult(ok))]
  /\ engineRet' = [engineRet EXCEPT ![c] = BoolResult(ok)]
  /\ UNCHANGED <<g_serverContext, engineListening, onRequest, cb_pc, cb_handler,
                 cb_requestId, outer, inner, result, lst_pc, handlerCalls, freed,
                 nCalls, slotOps>>
  /\ UNCHANGED <<engineLog, callArgs, jsBuffer>>
  /\ UNCHANGED <<codecVars, trVars, wsVars, lockVars>>

\* sendResponse / sendBinaryResponse task: one send_response call with the
\* captured values; the engine answers `ok`, and the task resolves to it
TaskSend(c, ok) ==
  /\ tasks[c].op \in {"sendResponse", "sendBinaryResponse"}
  /\ tasks[c].pc = "send"
  /\ sendLog' = EngineSend(sendLog, tasks[c].send.requestId,
                           tasks[c].send.statusCode, tasks[c].send.headersJson,
                           tasks[c].send.body, tasks[c].op, c)
  /\ tasks' = [tasks EXCEPT ![c] = Done(@, BoolResult(ok))]
  /\ engineRet' = [engineRet EXCEPT ![c] = BoolResult(ok)]
  /\ UNCHANGED <<g_serverContext, engineListening, onRequest, cb_pc, cb_handler,
                 cb_requestId, outer, inner, result, lst_pc, handlerCalls, freed,
                 nCalls, slotOps>>
  /\ UNCHANGED <<engineLog, callArgs, jsBuffer>>
  /\ UNCHANGED <<codecVars, trVars, wsVars, lockVars>>

\* ------------------------------------------------------ c_request_callback
\* SlotEmpty testing the context pointer only
SlotEmpty_contextOnly(ctx) == ~ctx.allocated

\* the test of the locked lookup: no context or an empty handler
SlotEmpty(ctx) == ~ctx.allocated \/ ctx.handler = NoHandler

\* the engine calls c_request_callback(cRequest) for record r on a worker
\* thread (it can once a start call has handed the callback over), and the
\* callback does its locked lookup: abandon the record (free it, return) when
\* the slot is empty, else copy the handler
CbLookup(r) ==
  /\ onRequest
  /\ cb_pc[r] = "idle"
  /\ IF SlotEmpty(g_serverContext)
     THEN /\ freed' = [freed EXCEPT ![r] = @ + 1]
          /\ cb_pc' = [cb_pc EXCEPT ![r] = "returned"]
          /\ UNCHANGED cb_handler
     ELSE /\ cb_handler' = [cb_handler EXCEPT ![r] = g_serverContext.handler]
          /\ cb_pc' = [cb_pc EXCEPT ![r] = "invoke"]
          /\ UNCHANGED freed
  /\ UNCHANGED <<g_serverContext, engineListening, onRequest, cb_requestId,
                 outer, inner, result, lst_pc, handlerCalls, sendLog, tasks,
                 nCalls, slotOps>>
  /\ UNCHANGED <<codecVars, trVars, wsVars, ioVars, lockVars>>

\* std::string requestId = request.requestId, the value the listeners capture
CapturedRequestId(r) == request_id(r)

\* CbInvoke answering a throwing handler with the 500 response
CbInvoke_answersThrow(r, throws) ==
  /\ cb_pc[r] = "invoke"
  /\ handlerCalls' = [handlerCalls EXCEPT ![r] = Append(@, cb_handler[r])]
  /\ cb_requestId' = [cb_requestId EXCEPT ![r] = request_id(r)]
  /\ IF throws
     THEN /\ freed' = [freed EXCEPT ![r] = @ + 1]
          /\ cb_pc' = [cb_pc EXCEPT ![r] = "returned"]
          /\ sendLog' = extractAndSendResponse(sendLog, request_id(r), ErrorResponse, r)
          /\ UNCHANGED outer
     ELSE /\ outer' = [outer EXCEPT ![r] = "pending"]
          /\ cb_pc' = [cb_pc EXCEPT ![r] = "addResolved"]
          /\ UNCHANGED <<freed, sendLog>>
  /\ UNCHANGED <<g_serverContext, engineListening, onRequest, cb_handler, inner,
                 result, lst_pc, tasks, nCalls, slotOps>>
  /\ UNCHANGED <<codecVars, trVars, wsVars, ioVars, lockVars>>

\* CbInvoke returning from the catch block without free_http_request
CbInvoke_leaksOnThrow(r, throws) ==
  /\ cb_pc[r] = "invoke"
  /\ handlerCalls' = [handlerCalls EXCEPT ![r] = Append(@, cb_handler[r])]
  /\ cb_requestId' = [cb_requestId EXCEPT ![r] = CapturedRequestId(r)]
  /\ IF throws
     THEN /\ cb_pc' = [cb_pc EXCEPT ![r] = "returned"]
          /\ UNCHANGED <<outer, freed>>
     ELSE /\ outer' = [outer EXCEPT ![r] = "pending"]
          /\ cb_pc' = [cb_pc EXCEPT ![r] = "addResolved"]
          /\ UNCHANGED freed
  /\ UNCHANGED <<g_serverContext, engineListening, onRequest, cb_handler, inner,
                 result, lst_pc, sendLog, tasks, nCalls, slotOps>>
  /\ UNCHANGED <<codecVars, trVars, wsVars, ioVars, lockVars>>

\* the request is translated and handler(request) is called.  The call either
\* throws (caught by catch (const std::exception &), logged; the record is
\* freed and the callback returns) or returns responsePromise, still pending
CbInvoke(r, throws) ==
  /\ cb_pc[r] = "invoke"
  /\ handlerCalls' = [handlerCalls EXCEPT ![r] = Append(@, cb_handler[r])]
  /\ cb_requestId' = [cb_requestId EXCEPT ![r] = CapturedRequestId(r)]
  /\ IF throws
     THEN /\ freed' = [freed EXCEPT ![r] = @ + 1]
          /\ cb_pc' = [cb_pc EXCEPT ![r] = "returned"]
          /\ UNCHANGED outer
     ELSE /\ outer' = [outer EXCEPT ![r] = "pending"]
          /\ cb_pc' = [cb_pc EXCEPT ![r] = "addResolved"]
          /\ UNCHANGED freed
  /\ UNCHANGED <<g_serverContext, engineListening, onRequest, cb_handler, inner,
                 result, lst_pc, sendLog, tasks, nCalls, slotOps>>
  /\ UNCHANGED <<codecVars, trVars, wsVars, ioVars, lockVars>>

\* responsePromise->addOnResolvedListener(...): a listener added to a promise
\* that is already resolved runs at once on this thread, else it is stored.
\* The listener sends an immediate HttpResponse, or goes on to register on the
\* Promise<HttpResponse> it was given
CbAddResolved(r) ==
  /\ cb_pc[r] = "addResolved"
  /\ IF outer[r] = "response"
     THEN /\ sendLog' = extractAndSendResponse(sendLog, cb_requestId[r], result[r], r)
          /\ cb_pc' = [cb_pc EXCEPT ![r] = "addRejected"]
          /\ UNCHANGED lst_pc
     ELSE IF outer[r] = "promise"
     THEN /\ lst_pc' = [lst_pc EXCEPT ![r] = "addResolved"]
          /\ cb_pc' = [cb_pc EXCEPT ![r] = "inListener"]
          /\ UNCHANGED sendLog
     ELSE /\ cb_pc' = [cb_pc EXCEPT ![r] = "addRejected"]
          /\ UNCHANGED <<sendLog, lst_pc>>
  /\ UNCHANGED <<g_serverContext, engineListening, onRequest, cb_handler,
                 cb_requestId, outer, inner, result, handlerCalls, freed, tasks,
                 nCalls, slotOps>>
  /\ UNCHANGED <<codecVars, trVars, wsVars, ioVars, lockVars>>

\* CbAddRejected answering 500 for every settled result, not only a rejected
\* one
CbAddRejected_anySettled(r) ==
  /\ cb_pc[r] = "addRejected"
  /\ sendLog' = IF outer[r] # "pending"
                THEN extractAndSendResponse(sendLog, cb_requestId[r], ErrorResponse, r)
                ELSE sendLog
  /\ freed' = [freed EXCEPT ![r] = @ + 1]
  /\ cb_pc' = [cb_pc EXCEPT ![r] = "returned"]
  /\ UNCHANGED <<g_serverContext, engineListening, onRequest, cb_handler,
                 cb_requestId, outer, inner, result, lst_pc, handlerCalls, tasks,
                 nCalls, slotOps>>
  /\ UNCHANGED <<codecVars, trVars, wsVars, ioVars, lockVars>>

\* CbAddRejected waiting for the result before it returns (a blocking await)
CbAddRejected_waits(r) ==
  /\ cb_pc[r] = "addRejected"
  /\ outer[r] # "pending"
  /\ sendLog' = IF outer[r] = "rejected"
                THEN extractAndSendResponse(sendLog, cb_requestId[r], ErrorResponse, r)
                ELSE sendLog
  /\ freed' = [freed EXCEPT ![r] = @ + 1]
  /\ cb_pc' = [cb_pc EXCEPT ![r] = "returned"]
  /\ UNCHANGED <<g_serverContext, engineListening, onRequest, cb_handler,
                 cb_requestId, outer, inner, result, lst_pc, handlerCalls, tasks,
                 nCalls, slotOps>>
  /\ UNCHANGED <<codecVars, trVars, wsVars, ioVars, lockVars>>

\* responsePromise->addOnRejectedListener(...), then the end of the try block
\* and free_http_request(cRequest): the callback returns
CbAddRejected(r) ==
  /\ cb_pc[r] = "addRejected"
  /\ sendLog' = IF outer[r] = "rejected"
                THEN extractAndSendResponse(sendLog, cb_requestId[r], ErrorResponse, r)
                ELSE sendLog
  /\ freed' = [freed EXCEPT ![r] = @ + 1]
  /\ cb_pc' = [cb_pc EXCEPT ![r] = "returned"]
  /\ UNCHANGED <<g_serverContext, engineListening, onRequest, cb_handler,
                 cb_requestId, outer, inner, result, lst_pc, handlerCalls, tasks,
                 nCalls, slotOps>>
  /\ UNCHANGED <<codecVars, trVars, wsVars, ioVars, lockVars>>

\* listeners stored on responsePromise so far
OuterResolvedListener(r) == cb_pc[r] \in {"addRejected", "returned"}
OuterRejectedListener(r) == cb_pc[r] = "returned"
\* listeners stored on the Promise<HttpResponse> so far
InnerResolvedListener(r) == lst_pc[r] \in {"addRejected", "done"}
InnerRejectedListener(r) == lst_pc[r] = "done"

\* the handler's runtime resolves responsePromise with an HttpResponse
OuterResolve(r, response) ==
  /\ outer[r] = "pending"
  /\ outer' = [outer EXCEPT ![r] = "response"]
  /\ result' = [result EXCEPT ![r] = response]
  /\ sendLog' = IF OuterResolvedListener(r)
                THEN extractAndSendResponse(sendLog, cb_requestId[r], response, r)
                ELSE sendLog
  /\ UNCHANGED <<g_serverContext, engineListening, onRequest, cb_pc, cb_handler,
                 cb_requestId, inner, lst_pc, handlerCalls, freed, tasks, nCalls,
                 slotOps>>
  /\ UNCHANGED <<codecVars, trVars, wsVars, ioVars, lockVars>>

\* the handler's runtime resolves responsePromise with a Promise<HttpResponse>;
\* a stored listener starts registering on it, on the resolving thread
OuterResolvePromise(r) ==
  /\ outer[r] = "pending"
  /\ outer' = [outer EXCEPT ![r] = "promise"]
  /\ inner' = [inner EXCEPT ![r] = "pending"]
  /\ lst_pc' = IF OuterResolvedListener(r)
               THEN [lst_pc EXCEPT ![r] = "addResolved"]
               ELSE lst_pc
  /\ UNCHANGED <<g_serverContext, engineListening, onRequest, cb_pc, cb_handler,
                 cb_requestId, result, handlerCalls, freed, sendLog, tasks,
                 nCalls, slotOps>>
  /\ UNCHANGED <<codecVars, trVars, wsVars, ioVars, lockVars>>

\* the handler's runtime rejects responsePromise
OuterReject(r) ==
  /\ outer[r] = "pending"
  /\ outer' = [outer EXCEPT ![r] = "rejected"]
  /\ sendLog' = IF OuterRejectedListener(r)
                THEN extractAndSendResponse(sendLog, cb_requestId[r], ErrorResponse, r)
                ELSE sendLog
  /\ UNCHANGED <<g_serverContext, engineListening, onRequest, cb_pc, cb_handler,
                 cb_requestId, inner, result, lst_pc, handlerCalls, freed, tasks,
                 nCalls, slotOps>>
  /\ UNCHANGED <<codecVars, trVars, wsVars, ioVars, lockVars>>

\* inside the outer listener: promise->addOnResolvedListener(...)
LstAddResolved(r) ==
  /\ lst_pc[r] = "addResolved"
  /\ sendLog' = IF inner[r] = "resolved"
                THEN extractAndSendResponse(sendLog, cb_requestId[r], result[r], r)
                ELSE sendLog
  /\ lst_pc' = [lst_pc EXCEPT ![r] = "addRejected"]
  /\ UNCHANGED <<g_serverContext, engineListening, onRequest, cb_pc, cb_handler,
                 cb_requestId, outer, inner, result, handlerCalls, freed, tasks,
                 nCalls, slotOps>>
  /\ UNCHANGED <<codecVars, trVars, wsVars, ioVars, lockVars>>

\* LstAddRejected only storing the listener: a Promise<HttpResponse> that has
\* already rejected when the listener is added is never answered
LstAddRejected_missing(r) ==
  /\ lst_pc[r] = "addRejected"
  /\ lst_pc' = [lst_pc EXCEPT ![r] = "done"]
  /\ cb_pc' = IF cb_pc[r] = "inListener"
              THEN [cb_pc EXCEPT ![r] = "addRejected"]
              ELSE cb_pc
  /\ UNCHANGED <<g_serverContext, engineListening, onRequest, cb_handler,
                 cb_requestId, outer, inner, result, handlerCalls, freed, sendLog,
                 tasks, nCalls, slotOps>>
  /\ UNCHANGED <<codecVars, trVars, wsVars, ioVars, lockVars>>

\* inside the outer listener: promise->addOnRejectedListener(...); the
\* listener ends, and the callback goes on when it ran on the callback's thread
LstAddRejected(r) ==
  /\ lst_pc[r] = "addRejected"
  /\ sendLog' = IF inner[r] = "rejected"
                THEN extractAndSendResponse(sendLog, cb_requestId[r], ErrorResponse, r)
                ELSE sendLog
  /\ lst_pc' = [lst_pc EXCEPT ![r] = "done"]
  /\ cb_pc' = IF cb_pc[r] = "inListener"
              THEN [cb_pc EXCEPT ![r] = "addRejected"]
              ELSE cb_pc
  /\ UNCHANGED <<g_serverContext, engineListening, onRequest, cb_handler,
                 cb_requestId, outer, inner, result, handlerCalls, freed, tasks,
                 nCalls, slotOps>>
  /\ UNCHANGED <<codecVars, trVars, wsVars, ioVars, lockVars>>

\* the handler's runtime resolves the Promise<HttpResponse>
InnerResolve(r, response) ==
  /\ inner[r] = "pending"
  /\ inner' = [inner EXCEPT ![r] = "resolved"]
  /\ result' = [result EXCEPT ![r] = response]
  /\ sendLog' = IF InnerResolvedListener(r)
                THEN extractAndSendResponse(sendLog, cb_requestId[r], response, r)
                ELSE sendLog
  /\ UNCHANGED <<g_serverContext, engineListening, onRequest, cb_pc, cb_handler,
                 cb_requestId, outer, lst_pc, handlerCalls, freed, tasks, nCalls,
                 slotOps>>
  /\ UNCHANGED <<codecVars, trVars, wsVars, ioVars, lockVars>>

\* the handler's runtime rejects the Promise<HttpResponse>
InnerReject(r) ==
  /\ inner[r] = "pending"
  /\ inner' = [inner EXCEPT ![r] = "rejected"]
  /\ sendLog' = IF InnerRejectedListener(r)
                THEN extractAndSendResponse(sendLog, cb_requestId[r], ErrorResponse, r)
                ELSE sendLog
  /\ UNCHANGED <<g_serverContext, engineListening, onRequest, cb_pc, cb_handler,
                 cb_requestId, outer, result, lst_pc, handlerCalls, freed, tasks,
                 nCalls, slotOps>>
  /\ UNCHANGED <<codecVars, trVars, wsVars, ioVars, lockVars>>

\* ------------------------------------------------------------ specification
Next ==
  \/ \E op \in StartOps, h \in Handlers : CallStart(op, h)
  \/ \E op \in StopOps : CallStop(op)
  \/ CallIsRunning
  \/ \E id \in Records, response \in HandlerResponses : CallSendResponse(id, response)
  \/ \E id \in Records : CallSendBinaryResponse(id, 200, <<"{", "}">>, "bytes")
  \/ Destroy
  \/ \E c \in Calls : TaskInstall(c)
  \/ \E c \in Calls, success \in BOOLEAN : TaskStartEngine(c, success)
  \/ \E c \in Calls : TaskStopEngine(c)
  \/ \E c \in Calls : TaskClear(c)
  \/ \E c \in Calls : TaskIsRunning(c)
  \/ \E c \in Calls, ok \in BOOLEAN : TaskSend(c, ok)
  \/ \E r \in Records : CbLookup(r)
  \/ \E r \in Records, throws \in BOOLEAN : CbInvoke(r, throws)
  \/ \E r \in Records : CbAddResolved(r)
  \/ \E r \in Records : CbAddRejected(r)
  \/ \E r \in Records, response \in HandlerResponses : OuterResolve(r, response)
  \/ \E r \in Records : OuterResolvePromise(r)
  \/ \E r \in Records : OuterReject(r)
  \/ \E r \in Records : LstAddResolved(r)
  \/ \E r \in Records : LstAddRejected(r)
  \/ \E r \in Records, response \in HandlerResponses : InnerResolve(r, response)
  \/ \E r \in Records : InnerReject(r)

Spec == Init /\ [][Next]_vars

\* ------------------------------------------------------------ header codec
\* characters of header names and values: letters, the two characters
\* escapeJson escapes, the letter of the \n escape, and the closing brace
MaxHeaderChars == 3
MaxHeaders == 2
HeaderAlphabet == {"a", "b", "n", QUOTE, BSLASH, "}"}

\* strings of at most n characters
Strs(n) == UNION {[1..k -> HeaderAlphabet] : k \in 0..n}

\* characters held by a mapping, names and values together
RECURSIVE CharsOf(_, _)
CharsOf(headers, keys) ==
  IF keys = {} THEN 0
  ELSE LET k == CHOOSE x \in keys : TRUE
       IN Len(k) + Len(headers[k]) + CharsOf(headers, keys \ {k})

\* the orders an unordered_map with these keys can iterate in
Orders(keys) ==
  {o \in [1..Cardinality(keys) -> keys] : \A i, j \in DOMAIN o : i # j => o[i] # o[j]}

\* characters the mapping under construction may still take
CharsLeft == MaxHeaderChars - CharsOf(hdrIn, DOMAIN hdrIn)

\* the application fills the headers of an HttpResponse: headers[key] = value
\* for a new key
AddHeader(key, value) ==
  /\ codec_pc = "build"
  /\ key \notin DOMAIN hdrIn
  /\ Cardinality(DOMAIN hdrIn) < MaxHeaders
  /\ CharsOf(hdrIn, DOMAIN hdrIn) + Len(key) + Len(value) <= MaxHeaderChars
  /\ hdrIn' = PutHeader(hdrIn, key, value)
  /\ UNCHANGED <<hdrOrder, hdrJson, hdrOut, codec_pc>>
  /\ UNCHANGED <<bridgeVars, trVars, wsVars, ioVars, lockVars>>

\* serializeHeaders(response.headers), the map iterating in `order`
Encode(order) ==
  /\ codec_pc = "build"
  /\ hdrOrder' = order
  /\ hdrJson' = serializeHeaders(hdrIn, order)
  /\ codec_pc' = "encoded"
  /\ UNCHANGED <<hdrIn, hdrOut>>
  /\ UNCHANGED <<bridgeVars, trVars, wsVars, ioVars, lockVars>>

\* an engine record whose headers_json is the string with the character at
\* 0-based position i missing (i = length - 1: the closing brace is missing)
Damage(i) ==
  /\ codec_pc = "encoded"
  /\ i < Len(hdrJson)
  /\ hdrJson' = Substr(hdrJson, 0, i) \o Substr(hdrJson, i + 1, Len(hdrJson) - i - 1)
  /\ codec_pc' = "damaged"
  /\ UNCHANGED <<hdrIn, hdrOrder, hdrOut>>
  /\ UNCHANGED <<bridgeVars, trVars, wsVars, ioVars, lockVars>>

\* the header parser of c_request_callback run on headers_json
Decode ==
  /\ codec_pc \in {"encoded", "damaged"}
  /\ hdrOut' = ParseHeaders(hdrJson)
  /\ codec_pc' = IF codec_pc = "encoded" THEN "decoded" ELSE "decodedDamaged"
  /\ UNCHANGED <<hdrIn, hdrOrder, hdrJson>>
  /\ UNCHANGED <<bridgeVars, trVars, wsVars, ioVars, lockVars>>

CodecNext ==
  \/ \E key \in Strs(CharsLeft) : \E value \in Strs(CharsLeft - Len(key)) :
        AddHeader(key, value)
  \/ \E order \in Orders(DOMAIN hdrIn) : Encode(order)
  \/ \E i \in 0..(Len(hdrJson) - 1) : Damage(i)
  \/ Decode

CodecSpec == Init /\ [][CodecNext]_vars

\* ------------------------------------------- translation of an engine record
\* the key request.headers.find looks for, and the same name as a client
\* writes it
UploadMarker ==
  <<"x", "-", "u", "p", "l", "o", "a", "d", "-", "f", "i", "l", "e", "n", "a", "m", "e">>
UploadMarkerCapital ==
  <<"X", "-", "U", "p", "l", "o", "a", "d", "-", "F", "i", "l", "e", "n", "a", "m", "e">>
MarkerKeys == {UploadMarker, UploadMarkerCapital}

\* cRequest->body: a null pointer, or bytes (body_len is their number)
RecordBodies == {NullPtr, Ptr(<<>>), Ptr(<<"x">>)}

\* the request carries an upload header
AddUploadHeader(key, value) ==
  /\ codec_pc = "build"
  /\ key \notin DOMAIN hdrIn
  /\ Cardinality(DOMAIN hdrIn) < MaxHeaders
  /\ hdrIn' = PutHeader(hdrIn, key, value)
  /\ UNCHANGED <<hdrOrder, hdrJson, hdrOut, codec_pc>>
  /\ UNCHANGED <<bridgeVars, trVars, wsVars, ioVars, lockVars>>

\* the pair of key k where headers_json deviates from {"key":"value",...}
Deviant(headers, k, kind) ==
  CASE kind = "unquotedKey" ->
         escapeJson(k) \o <<":", QUOTE>> \o escapeJson(headers[k]) \o <<QUOTE>>
    [] kind = "unquotedValue" ->
         <<QUOTE>> \o escapeJson(k) \o <<QUOTE, ":">> \o escapeJson(headers[k])
    [] kind = "unterminatedKey" -> <<QUOTE>> \o escapeJson(k)
    [] kind = "unterminatedValue" ->
         <<QUOTE>> \o escapeJson(k) \o <<QUOTE, ":", QUOTE>> \o escapeJson(headers[k])

DeviationKinds ==
  {"unquotedKey", "unquotedValue", "unterminatedKey", "unterminatedValue"}

\* an engine record whose headers_json is well formed up to pair i of the
\* order and deviates there: a key or a value without its quotes (the pairs
\* after it follow), or a string that is never closed (it runs to the end)
Corrupt(i, kind) ==
  /\ codec_pc = "encoded"
  /\ tr_pc = "none"
  /\ i \in 1..Len(hdrOrder)
  /\ hdrJson' =
       <<"{">> \o serializePairs(hdrIn, SubSeq(hdrOrder, 1, i - 1), TRUE)
         \o (IF i > 1 THEN <<",">> ELSE <<>>)
         \o Deviant(hdrIn, hdrOrder[i], kind)
         \o (IF kind \in {"unquotedKey", "unquotedValue"}
             THEN serializePairs(hdrIn, SubSeq(hdrOrder, i + 1, Len(hdrOrder)), FALSE)
             ELSE <<>>)
         \o <<"}">>
  /\ hdrIntact' = i - 1
  /\ codec_pc' = "corrupted"
  /\ UNCHANGED <<hdrIn, hdrOrder, hdrOut>>
  /\ UNCHANGED <<cRequest, request, tr_pc>>
  /\ UNCHANGED <<bridgeVars, wsVars, ioVars, lockVars>>

\* the engine calls c_request_callback with a record holding headers_json
\* and `body`
EngineRecord(body) ==
  /\ codec_pc \in {"encoded", "corrupted"}
  /\ tr_pc = "none"
  /\ cRequest' = [headers_json |-> hdrJson, body |-> body]
  /\ tr_pc' = "delivered"
  /\ UNCHANGED <<request, hdrIntact>>
  /\ UNCHANGED <<bridgeVars, codecVars, wsVars, ioVars, lockVars>>

\* IsBufferUpload matching the header name in any case
IsBufferUpload_anyCase(headers) == DOMAIN headers \cap MarkerKeys # {}

\* request.headers.find("x-upload-filename") != request.headers.end()
IsBufferUpload(headers) == UploadMarker \in DOMAIN headers

\* cRequest->body && cRequest->body_len > 0
HasBody(rec) == rec.body # NullPtr /\ Len(rec.body[1]) > 0

\* the HttpRequest c_request_callback builds: parsed headers, then body or
\* binaryBody
Translate(rec) ==
  LET headers == ParseHeaders(rec.headers_json) IN
  [headers |-> headers,
   body |-> IF HasBody(rec) /\ ~IsBufferUpload(headers)
            THEN Some(rec.body[1]) ELSE Absent,
   binaryBody |-> IF HasBody(rec) /\ IsBufferUpload(headers)
                  THEN Some(rec.body[1]) ELSE Absent]

\* c_request_callback up to the handler call: the translation
CbTranslate ==
  /\ tr_pc = "delivered"
  /\ request' = Translate(cRequest)
  /\ tr_pc' = "translated"
  /\ UNCHANGED <<cRequest, hdrIntact>>
  /\ UNCHANGED <<bridgeVars, codecVars, wsVars, ioVars, lockVars>>

\* handler(request)
CbHandlerCall ==
  /\ tr_pc = "translated"
  /\ tr_pc' = "called"
  /\ UNCHANGED <<cRequest, request, hdrIntact>>
  /\ UNCHANGED <<bridgeVars, codecVars, wsVars, ioVars, lockVars>>

\* header names and values of the records: strings of a letter and the two
\* characters the encoder escapes
RecordStrs(n) == {str \in Strs(n) : \A j \in DOMAIN str : str[j] \in {"a", QUOTE, BSLASH}}

TranslateNext ==
  \/ \E key \in RecordStrs(CharsLeft) : \E value \in RecordStrs(CharsLeft - Len(key)) :
        AddHeader(key, value)
  \/ \E key \in MarkerKeys : AddUploadHeader(key, <<"f">>)
  \/ \E order \in Orders(DOMAIN hdrIn) : Encode(order)
  \/ \E i \in 1..Len(hdrOrder), kind \in DeviationKinds : Corrupt(i, kind)
  \/ \E body \in RecordBodies : EngineRecord(body)
  \/ CbTranslate
  \/ CbHandlerCall

TranslateSpec == Init /\ [][TranslateNext]_vars

\* ------------------------------------------------------ WebSocket events
\* events the engine delivers to c_websocket_callback in a run
MaxEvents == 3

\* cEvent->event_type: the four event codes, one below and one above
WsCodes == 0..5

\* WsEventType with the cases of 3 and 4 exchanged
WsEventType_swapped(code) ==
  CASE code = 1 -> "OPEN"
    [] code = 2 -> "MESSAGE"
    [] code = 3 -> "ERROR"
    [] code = 4 -> "CLOSE"
    [] OTHER -> "none"

\* the switch on cEvent->event_type; "none" is the default case (return)
WsEventType(code) ==
  CASE code = 1 -> "OPEN"
    [] code = 2 -> "MESSAGE"
    [] code = 3 -> "CLOSE"
    [] code = 4 -> "ERROR"
    [] OTHER -> "none"

\* setWebSocketHandler(handler), first half: g_wsHandler = handler under
\* g_wsHandlerMutex (and _wsHandler = handler)
SetWebSocketHandlerStore(h) ==
  /\ setws_pc = "idle"
  /\ g_wsHandler' = h
  /\ setws_pc' = "register"
  /\ UNCHANGED <<wsCallbackSet, ws_pc, ws_event, ws_handler, wsDelivered,
                 wsHandled, wsRunning>>
  /\ UNCHANGED <<bridgeVars, codecVars, trVars, ioVars, lockVars>>

\* setWebSocketHandler, second half: set_websocket_callback(c_websocket_callback)
SetWebSocketHandlerRegister ==
  /\ setws_pc = "register"
  /\ wsCallbackSet' = TRUE
  /\ setws_pc' = "idle"
  /\ UNCHANGED <<g_wsHandler, ws_pc, ws_event, ws_handler, wsDelivered,
                 wsHandled, wsRunning>>
  /\ UNCHANGED <<bridgeVars, codecVars, trVars, ioVars, lockVars>>

\* c_websocket_callback has returned to the engine ("caught": through its
\* catch clause)
WsReturned(conn) == ws_pc[conn] \in {"idle", "returned", "caught"}

\* the engine calls c_websocket_callback(cEvent) for connection conn (the
\* events of one connection one after the other), and the callback does its
\* locked lookup: return when the slot is empty, else copy the handler
WsLookup(conn, code) ==
  /\ wsCallbackSet
  /\ WsReturned(conn)
  /\ wsDelivered < MaxEvents
  /\ wsDelivered' = wsDelivered + 1
  /\ ws_event' = [ws_event EXCEPT ![conn] =
                    [seq |-> wsDelivered + 1, event_type |-> code]]
  /\ IF g_wsHandler = NoHandler
     THEN /\ ws_pc' = [ws_pc EXCEPT ![conn] = "returned"]
          /\ ws_handler' = [ws_handler EXCEPT ![conn] = NoHandler]
     ELSE /\ ws_pc' = [ws_pc EXCEPT ![conn] = "translate"]
          /\ ws_handler' = [ws_handler EXCEPT ![conn] = g_wsHandler]
  /\ UNCHANGED <<g_wsHandler, wsCallbackSet, setws_pc, wsHandled, wsRunning>>
  /\ UNCHANGED <<bridgeVars, codecVars, trVars, ioVars, lockVars>>

\* the translation of cEvent: the default case of the switch returns
WsTranslate(conn) ==
  /\ ws_pc[conn] = "translate"
  /\ ws_pc' = [ws_pc EXCEPT ![conn] =
                 IF WsEventType(ws_event[conn].event_type) = "none"
                 THEN "returned" ELSE "call"]
  /\ UNCHANGED <<g_wsHandler, wsCallbackSet, setws_pc, ws_event, ws_handler,
                 wsDelivered, wsHandled, wsRunning>>
  /\ UNCHANGED <<bridgeVars, codecVars, trVars, ioVars, lockVars>>

\* WsCall returning to the engine with the handler still running
WsCall_detached(conn) ==
  /\ ws_pc[conn] = "call"
  /\ wsHandled' = [wsHandled EXCEPT ![conn] =
       Append(@, [seq |-> ws_event[conn].seq,
                  type |-> WsEventType(ws_event[conn].event_type)])]
  /\ wsRunning' = [wsRunning EXCEPT ![conn] = TRUE]
  /\ ws_pc' = [ws_pc EXCEPT ![conn] = "returned"]
  /\ UNCHANGED <<g_wsHandler, wsCallbackSet, setws_pc, ws_event, ws_handler,
                 wsDelivered>>
  /\ UNCHANGED <<bridgeVars, codecVars, trVars, ioVars, lockVars>>

\* handler(event): the copied handler starts running on the callback's thread
WsCall(conn) ==
  /\ ws_pc[conn] = "call"
  /\ wsHandled' = [wsHandled EXCEPT ![conn] =
       Append(@, [seq |-> ws_event[conn].seq,
                  type |-> WsEventType(ws_event[conn].event_type)])]
  /\ wsRunning' = [wsRunning EXCEPT ![conn] = TRUE]
  /\ ws_pc' = [ws_pc EXCEPT ![conn] = "inHandler"]
  /\ UNCHANGED <<g_wsHandler, wsCallbackSet, setws_pc, ws_event, ws_handler,
                 wsDelivered>>
  /\ UNCHANGED <<bridgeVars, codecVars, trVars, ioVars, lockVars>>

\* WsHandlerEnd emptying the slot when the handler threw
WsHandlerEnd_uninstalls(conn, throws) ==
  /\ ws_pc[conn] = "inHandler"
  /\ wsRunning' = [wsRunning EXCEPT ![conn] = FALSE]
  /\ ws_pc' = [ws_pc EXCEPT ![conn] = IF throws THEN "caught" ELSE "returned"]
  /\ g_wsHandler' = IF throws THEN NoHandler ELSE g_wsHandler
  /\ UNCHANGED <<wsCallbackSet, setws_pc, ws_event, ws_handler, wsDelivered,
                 wsHandled>>
  /\ UNCHANGED <<bridgeVars, codecVars, trVars, ioVars, lockVars>>

\* the handler returns, or throws a std::exception that the catch clause
\* logs; either way the callback returns
WsHandlerEnd(conn, throws) ==
  /\ ws_pc[conn] = "inHandler"
  /\ wsRunning' = [wsRunning EXCEPT ![conn] = FALSE]
  /\ ws_pc' = [ws_pc EXCEPT ![conn] = IF throws THEN "caught" ELSE "returned"]
  /\ UNCHANGED <<g_wsHandler, wsCallbackSet, setws_pc, ws_event, ws_handler,
                 wsDelivered, wsHandled>>
  /\ UNCHANGED <<bridgeVars, codecVars, trVars, ioVars, lockVars>>

WsNext ==
  \/ \E h \in Handlers : SetWebSocketHandlerStore(h)
  \/ SetWebSocketHandlerRegister
  \/ \E conn \in WsConnections, code \in WsCodes : WsLookup(conn, code)
  \/ \E conn \in WsConnections : WsTranslate(conn)
  \/ \E conn \in WsConnections : WsCall(conn)
  \/ \E conn \in WsConnections, throws \in BOOLEAN : WsHandlerEnd(conn, throws)

WsSpec == Init /\ [][WsNext]_vars

\* ------------------------------------------------------------ streaming
\* const int BUFFER_SIZE = 64 * 1024
BUFFER_SIZE == 65536

\* chunks the application writes
Chunks == {"a", "b", "c"}

\* what read_request_body_chunk can return when given max_len: an error, end
\* of stream, or a number of bytes up to max_len
ReadCounts(max_len) == {-1, 0, 1, max_len - 1, max_len}

\* one call seen by the engine, made by the task of call number `origin`
EngineCall(fn, id, args, ret, origin) ==
  [fn |-> fn, id |-> id, args |-> args, ret |-> ret, origin |-> origin]

\* readRequestBodyChunk(requestId)
CallReadRequestBodyChunk(id) ==
  /\ Queue([NoTask EXCEPT !.op = "readRequestBodyChunk", !.pc = "call",
                          !.result = "pending", !.send = [requestId |-> id]])
  /\ UNCHANGED <<g_serverContext, engineListening, onRequest, cb_pc, cb_handler,
                 cb_requestId, outer, inner, result, lst_pc, handlerCalls, freed,
                 sendLog, slotOps>>
  /\ UNCHANGED <<codecVars, trVars, wsVars, ioVars, lockVars>>

\* writeResponseChunk(requestId, chunk)
CallWriteResponseChunk(id, chunk) ==
  /\ Queue([NoTask EXCEPT !.op = "writeResponseChunk", !.pc = "call",
                          !.result = "pending",
                          !.send = [requestId |-> id, chunk |-> chunk]])
  /\ UNCHANGED <<g_serverContext, engineListening, onRequest, cb_pc, cb_handler,
                 cb_requestId, outer, inner, result, lst_pc, handlerCalls, freed,
                 sendLog, slotOps>>
  /\ UNCHANGED <<codecVars, trVars, wsVars, ioVars, lockVars>>

\* endResponse(requestId, statusCode, headersJson)
CallEndResponse(id, statusCode, headersJson) ==
  /\ Queue([NoTask EXCEPT !.op = "endResponse", !.pc = "call",
                          !.result = "pending",
                          !.send = [requestId |-> id, statusCode |-> statusCode,
                                    headersJson |-> headersJson]])
  /\ UNCHANGED <<g_serverContext, engineListening, onRequest, cb_pc, cb_handler,
                 cb_requestId, outer, inner, result, lst_pc, handlerCalls, freed,
                 sendLog, slotOps>>
  /\ UNCHANGED <<codecVars, trVars, wsVars, ioVars, lockVars>>

\* ReadResult resolving to the empty string when the engine reports an error
ReadResult_swallowsError(c, bytesRead) ==
  IF bytesRead <= 0
  THEN [state |-> "resolved", value |-> [buffer |-> 0, len |-> 0]]
  ELSE [state |-> "resolved", value |-> [buffer |-> c, len |-> bytesRead]]

\* the result of the read task of call c: a rejection for the runtime_error,
\* the empty string, or std::string(buffer.data(), bytesRead): the first
\* bytesRead bytes of the buffer the engine filled in this call
ReadResult(c, bytesRead) ==
  IF bytesRead < 0
  THEN [state |-> "rejected", error |-> "Failed to read request body chunk"]
  ELSE IF bytesRead = 0
  THEN [state |-> "resolved", value |-> [buffer |-> 0, len |-> 0]]
  ELSE [state |-> "resolved", value |-> [buffer |-> c, len |-> bytesRead]]

\* readRequestBodyChunk task: one read_request_body_chunk call with
\* BUFFER_SIZE as the limit; the engine returns bytesRead
TaskReadChunk(c, bytesRead) ==
  /\ tasks[c].op = "readRequestBodyChunk"
  /\ tasks[c].pc = "call"
  /\ bytesRead \in ReadCounts(BUFFER_SIZE)
  /\ engineLog' = Append(engineLog,
       EngineCall("read_request_body_chunk", tasks[c].send.requestId,
                  [max_len |-> BUFFER_SIZE], bytesRead, c))
  /\ engineRet' = [engineRet EXCEPT ![c] = bytesRead]
  /\ tasks' = [tasks EXCEPT ![c] = Done(@, ReadResult(c, bytesRead))]
  /\ UNCHANGED <<g_serverContext, engineListening, onRequest, cb_pc, cb_handler,
                 cb_requestId, outer, inner, result, lst_pc, handlerCalls, freed,
                 sendLog, nCalls, slotOps>>
  /\ UNCHANGED <<callArgs, jsBuffer>>
  /\ UNCHANGED <<codecVars, trVars, wsVars, lockVars>>

\* writeResponseChunk task: one write_response_chunk call; the engine
\* answers `ok` and the task resolves to it
TaskWriteChunk(c, ok) ==
  /\ tasks[c].op = "writeResponseChunk"
  /\ tasks[c].pc = "call"
  /\ engineLog' = Append(engineLog,
       EngineCall("write_response_chunk", tasks[c].send.requestId,
                  [chunk |-> tasks[c].send.chunk], BoolResult(ok), c))
  /\ engineRet' = [engineRet EXCEPT ![c] = BoolResult(ok)]
  /\ tasks' = [tasks EXCEPT ![c] = Done(@, BoolResult(ok))]
  /\ UNCHANGED <<g_serverContext, engineListening, onRequest, cb_pc, cb_handler,
                 cb_requestId, outer, inner, result, lst_pc, handlerCalls, freed,
                 sendLog, nCalls, slotOps>>
  /\ UNCHANGED <<callArgs, jsBuffer>>
  /\ UNCHANGED <<codecVars, trVars, wsVars, lockVars>>

\* endResponse task: one end_response call
TaskEndResponse(c, ok) ==
  /\ tasks[c].op = "endResponse"
  /\ tasks[c].pc = "call"
  /\ engineLog' = Append(engineLog,
       EngineCall("end_response", tasks[c].send.requestId,
                  [statusCode |-> tasks[c].send.statusCode,
                   headersJson |-> tasks[c].send.headersJson], BoolResult(ok), c))
  /\ engineRet' = [engineRet EXCEPT ![c] = BoolResult(ok)]
  /\ tasks' = [tasks EXCEPT ![c] = Done(@, BoolResult(ok))]
  /\ UNCHANGED <<g_serverContext, engineListening, onRequest, cb_pc, cb_handler,
                 cb_requestId, outer, inner, result, lst_pc, handlerCalls, freed,
                 sendLog, nCalls, slotOps>>
  /\ UNCHANGED <<callArgs, jsBuffer>>
  /\ UNCHANGED <<codecVars, trVars, wsVars, lockVars>>

\* the application streams: it reads request bodies and writes responses in
\* chunks; every task runs when the pool gets to it
StreamNext ==
  \/ \E id \in Records : CallReadRequestBodyChunk(id)
  \/ \E id \in Records, chunk \in Chunks : CallWriteResponseChunk(id, chunk)
  \/ \E id \in Records : CallEndResponse(id, 200, <<"{", "}">>)
  \/ \E c \in Calls, bytesRead \in ReadCounts(BUFFER_SIZE) : TaskReadChunk(c, bytesRead)
  \/ \E c \in Calls, ok \in BOOLEAN : TaskWriteChunk(c, ok)
  \/ \E c \in Calls, ok \in BOOLEAN : TaskEndResponse(c, ok)

StreamSpec == Init /\ [][StreamNext]_vars

\* ------------------------------------------- binary buffers, WebSocket sends
\* the application overwrites the bytes of its ArrayBuffer
JsWriteBuffer(bytes) ==
  /\ jsBuffer.live
  /\ bytes # jsBuffer.bytes
  /\ jsBuffer' = [jsBuffer EXCEPT !.bytes = bytes]
  /\ UNCHANGED <<engineLog, engineRet, callArgs>>
  /\ UNCHANGED <<bridgeVars, codecVars, trVars, wsVars, lockVars>>

\* the runtime releases the ArrayBuffer of the application
JsReleaseBuffer ==
  /\ jsBuffer.live
  /\ jsBuffer' = [bytes |-> "", live |-> FALSE]
  /\ UNCHANGED <<engineLog, engineRet, callArgs>>
  /\ UNCHANGED <<bridgeVars, codecVars, trVars, wsVars, lockVars>>

\* binaryData after `if (body && body->data() && body->size() > 0)
\* binaryData.assign(data, data + size)`: the bytes, or empty
BufferCopy(buf) == IF buf.live /\ buf.bytes # "" THEN buf.bytes ELSE ""

\* wsSendText(connectionId, message)
CallWsSendText(conn, message) ==
  /\ Queue([NoTask EXCEPT !.op = "wsSendText", !.pc = "call", !.result = "pending",
                          !.send = [connectionId |-> conn, message |-> message]])
  /\ callArgs' = [callArgs EXCEPT ![nCalls + 1] =
                    [method |-> "wsSendText", connectionId |-> conn,
                     message |-> message]]
  /\ UNCHANGED <<g_serverContext, engineListening, onRequest, cb_pc, cb_handler,
                 cb_requestId, outer, inner, result, lst_pc, handlerCalls, freed,
                 sendLog, slotOps>>
  /\ UNCHANGED <<engineLog, engineRet, jsBuffer>>
  /\ UNCHANGED <<codecVars, trVars, wsVars, lockVars>>

\* wsSendBinary(connectionId, data): `data` holds `bytes`, copied into
\* binaryData on the calling thread
CallWsSendBinary(conn, bytes) ==
  /\ Queue([NoTask EXCEPT !.op = "wsSendBinary", !.pc = "call", !.result = "pending",
                          !.send = [connectionId |-> conn, binaryData |-> bytes]])
  /\ callArgs' = [callArgs EXCEPT ![nCalls + 1] =
                    [method |-> "wsSendBinary", connectionId |-> conn,
                     body |-> bytes]]
  /\ UNCHANGED <<g_serverContext, engineListening, onRequest, cb_pc, cb_handler,
                 cb_requestId, outer, inner, result, lst_pc, handlerCalls, freed,
                 sendLog, slotOps>>
  /\ UNCHANGED <<engineLog, engineRet, jsBuffer>>
  /\ UNCHANGED <<codecVars, trVars, wsVars, lockVars>>

\* closeCode of wsClose with every omitted code mapped to 0
CloseCode_zero(code) == IF code = Absent THEN 0 ELSE code[1]

\* code.has_value() ? static_cast<int>(code.value()) : 1000
CloseCode(code) == IF code = Absent THEN 1000 ELSE code[1]

\* reason.has_value() ? reason.value() : ""
CloseReason(reason) == IF reason = Absent THEN "" ELSE reason[1]

\* wsClose(connectionId, code, reason), code and reason optional
CallWsClose(conn, code, reason) ==
  /\ Queue([NoTask EXCEPT !.op = "wsClose", !.pc = "call", !.result = "pending",
                          !.send = [connectionId |-> conn,
                                    closeCode |-> CloseCode(code),
                                    closeReason |-> CloseReason(reason)]])
  /\ callArgs' = [callArgs EXCEPT ![nCalls + 1] =
                    [method |-> "wsClose", connectionId |-> conn,
                     code |-> code, reason |-> reason]]
  /\ UNCHANGED <<g_serverContext, engineListening, onRequest, cb_pc, cb_handler,
                 cb_requestId, outer, inner, result, lst_pc, handlerCalls, freed,
                 sendLog, slotOps>>
  /\ UNCHANGED <<engineLog, engineRet, jsBuffer>>
  /\ UNCHANGED <<codecVars, trVars, wsVars, lockVars>>

\* wsSendText task: one ws_send_text call
TaskWsSendText(c, ok) ==
  /\ tasks[c].op = "wsSendText"
  /\ tasks[c].pc = "call"
  /\ engineLog' = Append(engineLog,
       EngineCall("ws_send_text", tasks[c].send.connectionId,
                  [message |-> tasks[c].send.message], BoolResult(ok), c))
  /\ engineRet' = [engineRet EXCEPT ![c] = BoolResult(ok)]
  /\ tasks' = [tasks EXCEPT ![c] = Done(@, BoolResult(ok))]
  /\ UNCHANGED <<g_serverContext, engineListening, onRequest, cb_pc, cb_handler,
                 cb_requestId, outer, inner, result, lst_pc, handlerCalls, freed,
                 sendLog, nCalls, slotOps>>
  /\ UNCHANGED <<callArgs, jsBuffer>>
  /\ UNCHANGED <<codecVars, trVars, wsVars, lockVars>>

\* TaskWsSendBinary reading the bytes from the buffer of the application
\* when it runs
TaskWsSendBinary_readsBuffer(c, ok) ==
  /\ tasks[c].op = "wsSendBinary"
  /\ tasks[c].pc = "call"
  /\ IF BufferCopy(jsBuffer) = ""
     THEN /\ tasks' = [tasks EXCEPT ![c] = Done(@, "false")]
          /\ UNCHANGED <<engineLog, engineRet>>
     ELSE /\ engineLog' = Append(engineLog,
               EngineCall("ws_send_binary", tasks[c].send.connectionId,
                          [data |-> BufferCopy(jsBuffer)], BoolResult(ok), c))
          /\ engineRet' = [engineRet EXCEPT ![c] = BoolResult(ok)]
          /\ tasks' = [tasks EXCEPT ![c] = Done(@, BoolResult(ok))]
  /\ UNCHANGED <<g_serverContext, engineListening, onRequest, cb_pc, cb_handler,
                 cb_requestId, outer, inner, result, lst_pc, handlerCalls, freed,
                 sendLog, nCalls, slotOps>>
  /\ UNCHANGED <<callArgs, jsBuffer>>
  /\ UNCHANGED <<codecVars, trVars, wsVars, lockVars>>

\* wsSendBinary task: false without an engine call when binaryData is empty,
\* else one ws_send_binary call with the captured bytes
TaskWsSendBinary(c, ok) ==
  /\ tasks[c].op = "wsSendBinary"
  /\ tasks[c].pc = "call"
  /\ IF tasks[c].send.binaryData = ""
     THEN /\ tasks' = [tasks EXCEPT ![c] = Done(@, "false")]
          /\ UNCHANGED <<engineLog, engineRet>>
     ELSE /\ engineLog' = Append(engineLog,
               EngineCall("ws_send_binary", tasks[c].send.connectionId,
                          [data |-> tasks[c].send.binaryData], BoolResult(ok), c))
          /\ engineRet' = [engineRet EXCEPT ![c] = BoolResult(ok)]
          /\ tasks' = [tasks EXCEPT ![c] = Done(@, BoolResult(ok))]
  /\ UNCHANGED <<g_serverContext, engineListening, onRequest, cb_pc, cb_handler,
                 cb_requestId, outer, inner, result, lst_pc, handlerCalls, freed,
                 sendLog, nCalls, slotOps>>
  /\ UNCHANGED <<callArgs, jsBuffer>>
  /\ UNCHANGED <<codecVars, trVars, wsVars, lockVars>>

\* wsClose task: one ws_close call
TaskWsClose(c, ok) ==
  /\ tasks[c].op = "wsClose"
  /\ tasks[c].pc = "call"
  /\ engineLog' = Append(engineLog,
       EngineCall("ws_close", tasks[c].send.connectionId,
                  [code |-> tasks[c].send.closeCode,
                   reason |-> tasks[c].send.closeReason], BoolResult(ok), c))
  /\ engineRet' = [engineRet EXCEPT ![c] = BoolResult(ok)]
  /\ tasks' = [tasks EXCEPT ![c] = Done(@, BoolResult(ok))]
  /\ UNCHANGED <<g_serverContext, engineListening, onRequest, cb_pc, cb_handler,
                 cb_requestId, outer, inner, result, lst_pc, handlerCalls, freed,
                 sendLog, nCalls, slotOps>>
  /\ UNCHANGED <<callArgs, jsBuffer>>
  /\ UNCHANGED <<codecVars, trVars, wsVars, lockVars>>

\* codes and reasons the application closes with, and omits
CloseCodes == {Absent, Some(1001)}
CloseReasons == {Absent, Some("bye")}

\* the application sends on WebSocket connections
WsSendNext ==
  \/ \E bytes \in BufferContents : JsWriteBuffer(bytes)
  \/ JsReleaseBuffer
  \/ \E conn \in WsConnections, message \in {"", "hi"} : CallWsSendText(conn, message)
  \/ \E conn \in WsConnections : CallWsSendBinary(conn, BufferCopy(jsBuffer))
  \/ \E conn \in WsConnections, code \in CloseCodes, reason \in CloseReasons :
        CallWsClose(conn, code, reason)
  \/ \E c \in Calls, ok \in BOOLEAN : TaskWsSendText(c, ok)
  \/ \E c \in Calls, ok \in BOOLEAN : TaskWsSendBinary(c, ok)
  \/ \E c \in Calls, ok \in BOOLEAN : TaskWsClose(c, ok)

WsSendSpec == Init /\ [][WsSendNext]_vars

\* the steps of the thread that runs c_request_callback for r, from the
\* handler call to the return (a listener that runs at registration runs on
\* this thread)
CbThreadStep(r) ==
  \/ \E throws \in BOOLEAN : CbInvoke(r, throws)
  \/ CbAddResolved(r)
  \/ CbAddRejected(r)
  \/ cb_pc[r] = "inListener" /\ (LstAddResolved(r) \/ LstAddRejected(r))

\* ---------------------------------------------- dispatch on a started server
\* the state once start(port, h, host) has resolved to true: handler h is
\* installed, the engine listens and holds c_request_callback
InitStarted ==
  \E h \in Handlers :
    /\ g_serverContext = InstallHandler(NullContext, h)
    /\ engineListening = TRUE
    /\ onRequest = TRUE
    /\ cb_pc = [r \in Records |-> "idle"]
    /\ cb_handler = [r \in Records |-> NoHandler]
    /\ cb_requestId = [r \in Records |-> 0]
    /\ outer = [r \in Records |-> "none"]
    /\ inner = [r \in Records |-> "none"]
    /\ result = [r \in Records |-> NoResponse]
    /\ lst_pc = [r \in Records |-> "idle"]
    /\ handlerCalls = [r \in Records |-> <<>>]
    /\ freed = [r \in Records |-> 0]
    /\ sendLog = [r \in Records |-> <<>>]
    /\ tasks = [c \in Calls |->
                  IF c = 1 THEN Done([NoTask EXCEPT !.op = "start"], "true") ELSE NoTask]
    /\ nCalls = 1
    /\ slotOps = [kind |-> "install", handler |-> h]
    /\ hdrIn = EmptyHeaders
    /\ hdrOrder = <<>>
    /\ hdrJson = <<>>
    /\ hdrOut = EmptyHeaders
    /\ codec_pc = "build"
    /\ trInit /\ wsInit /\ ioInit /\ lockInit

\* the engine threads and the handler's runtime, with no further API call
DispatchNext ==
  \/ \E r \in Records : CbLookup(r)
  \/ \E r \in Records, throws \in BOOLEAN : CbInvoke(r, throws)
  \/ \E r \in Records : CbAddResolved(r)
  \/ \E r \in Records : CbAddRejected(r)
  \/ \E r \in Records, response \in HandlerResponses : OuterResolve(r, response)
  \/ \E r \in Records : OuterResolvePromise(r)
  \/ \E r \in Records : OuterReject(r)
  \/ \E r \in Records : LstAddResolved(r)
  \/ \E r \in Records : LstAddRejected(r)
  \/ \E r \in Records, response \in HandlerResponses : InnerResolve(r, response)
  \/ \E r \in Records : InnerReject(r)

DispatchSpec == InitStarted /\ [][DispatchNext]_vars

\* a started server whose application also answers with sendResponse and
\* sendBinaryResponse
ReplyNext ==
  \/ DispatchNext
  \/ \E id \in Records, response \in HandlerResponses : CallSendResponse(id, response)
  \/ \E id \in Records : CallSendBinaryResponse(id, 200, <<"{", "}">>, "bytes")
  \/ \E c \in Calls, ok \in BOOLEAN : TaskSend(c, ok)

ReplySpec == InitStarted /\ [][ReplyNext]_vars

\* the engine's worker threads are scheduled: a callback that can take a step
\* takes one.  Nothing makes the handler's runtime settle a promise
DispatchFairSpec ==
  DispatchSpec /\ \A r \in Records : WF_vars(CbThreadStep(r))

\* ------------------------------------------------- handler slot life cycle
\* the calls and tasks that write or read the slot, and the callbacks up to
\* the handler call (with a handler that returns its promise)
LifecycleNext ==
  \/ \E op \in StartOps, h \in Handlers : CallStart(op, h)
  \/ \E op \in StopOps : CallStop(op)
  \/ CallIsRunning
  \/ Destroy
  \/ \E c \in Calls : TaskInstall(c)
  \/ \E c \in Calls, success \in BOOLEAN : TaskStartEngine(c, success)
  \/ \E c \in Calls : TaskStopEngine(c)
  \/ \E c \in Calls : TaskClear(c)
  \/ \E c \in Calls : TaskIsRunning(c)
  \/ \E r \in Records : CbLookup(r)
  \/ \E r \in Records : CbInvoke(r, FALSE)

LifecycleSpec == Init /\ [][LifecycleNext]_vars

\* the application answers through every path: handlers that resolve to an
\* HttpResponse, the send methods and the streaming methods
SurfaceNext ==
  \/ \E r \in Records : CbLookup(r)
  \/ \E r \in Records : CbInvoke(r, FALSE)
  \/ \E r \in Records : CbAddResolved(r)
  \/ \E r \in Records : CbAddRejected(r)
  \/ \E r \in Records, response \in HandlerResponses : OuterResolve(r, response)
  \/ \E id \in Records, response \in HandlerResponses : CallSendResponse(id, response)
  \/ \E id \in Records : CallSendBinaryResponse(id, 200, <<"{", "}">>, "bytes")
  \/ \E id \in Records : CallWriteResponseChunk(id, "a")
  \/ \E id \in Records : CallEndResponse(id, 200, <<"{", "}">>)
  \/ \E c \in Calls, ok \in BOOLEAN : TaskSend(c, ok)
  \/ \E c \in Calls, ok \in BOOLEAN : TaskWriteChunk(c, ok)
  \/ \E c \in Calls, ok \in BOOLEAN : TaskEndResponse(c, ok)

SurfaceSpec == InitStarted /\ [][SurfaceNext]_vars

\* a started server that the application stops while the engine delivers
\* records: callbacks find the slot full or empty, handlers return or throw,
\* and results settle before or after the listeners are registered
ReleaseNext ==
  \/ \E op \in StopOps : CallStop(op)
  \/ \E c \in Calls : TaskStopEngine(c)
  \/ \E c \in Calls : TaskClear(c)
  \/ \E r \in Records : CbLookup(r)
  \/ \E r \in Records, throws \in BOOLEAN : CbInvoke(r, throws)
  \/ \E r \in Records : CbAddResolved(r)
  \/ \E r \in Records : CbAddRejected(r)
  \/ \E r \in Records, response \in HandlerResponses : OuterResolve(r, response)
  \/ \E r \in Records : OuterResolvePromise(r)
  \/ \E r \in Records : OuterReject(r)
  \/ \E r \in Records : LstAddResolved(r)
  \/ \E r \in Records : LstAddRejected(r)

ReleaseSpec == InitStarted /\ [][ReleaseNext]_vars

\* the application calls stop() and start(port, h, host) without waiting for
\* the promises, asks isRunning, and the engine delivers records once it has
\* the callback
RestartNext ==
  \/ CallStop("stop")
  \/ \E h \in Handlers : CallStart("start", h)
  \/ CallIsRunning
  \/ \E c \in Calls : TaskInstall(c)
  \/ \E c \in Calls, success \in BOOLEAN : TaskStartEngine(c, success)
  \/ \E c \in Calls : TaskStopEngine(c)
  \/ \E c \in Calls : TaskClear(c)
  \/ \E c \in Calls : TaskIsRunning(c)
  \/ \E r \in Records : CbLookup(r)
  \/ \E r \in Records : CbInvoke(r, FALSE)

RestartSpec == Init /\ [][RestartNext]_vars

\* ------------------------------------------------------- the two mutexes
\* the threads that run bridge code: the engine's worker thread of each
\* request record and of each WebSocket connection, the pool thread of each
\* task, and the application's own thread
CbThread(r) == r
TaskThread(c) == 10 + c
WsThread(conn) == IF conn = "c1" THEN 21 ELSE 22
AppThread == 30

\* positions of c_request_callback at which its lock_guard block has ended:
\* the handler was copied, or the record was abandoned
CbUnlockAt == {"invoke", "returned"}

\* positions of a task at which its lock_guard block has ended: after the
\* install of a start task, at the end of the lambda of stop and isRunning
TaskUnlockAt == {"engine", "done"}

\* WsUnlockAt with the lock_guard in the scope of the whole callback
WsUnlockAt_wholeCallback == {"returned", "caught"}

\* positions of c_websocket_callback at which its lock_guard block has
\* ended: the handler was copied, or the slot was empty and it returned
WsUnlockAt == {"translate", "returned"}

\* thread t holds g_contextMutex and has reached the end of the block
MustUnlockContext(t) ==
  /\ g_contextMutex = t
  /\ \/ \E r \in Records : t = CbThread(r) /\ cb_pc[r] \in CbUnlockAt
     \/ \E c \in Calls : t = TaskThread(c) /\ tasks[c].pc \in TaskUnlockAt

\* the callback of conn holds g_wsHandlerMutex, has done its lookup and has
\* reached the end of the block
MustUnlockWs(conn) ==
  /\ g_wsHandlerMutex = WsThread(conn)
  /\ setws_by # WsThread(conn)
  /\ wsDelivered > wsLockedAt
  /\ ws_pc[conn] \in WsUnlockAt

\* thread t is at std::lock_guard<std::mutex> lock(g_contextMutex)
CtxLockAt(t) ==
  /\ g_contextMutex # t
  /\ \/ \E r \in Records : t = CbThread(r) /\ onRequest /\ cb_pc[r] = "idle"
     \/ \E c \in Calls :
          t = TaskThread(c) /\ tasks[c].pc \in {"install", "clear", "read"}

\* the callback of conn is at std::lock_guard<std::mutex> lock(g_wsHandlerMutex)
WsLockAt(conn) ==
  /\ g_wsHandlerMutex # WsThread(conn)
  /\ wsCallbackSet
  /\ WsReturned(conn)
  /\ wsDelivered < MaxEvents

\* std::lock_guard<std::mutex> lock(g_contextMutex): the thread goes on once
\* the mutex is free
LockContext(t) ==
  /\ CtxLockAt(t)
  /\ g_contextMutex = Free
  /\ g_contextMutex' = t
  /\ UNCHANGED <<g_wsHandlerMutex, setws_by, setws_lk, wsLockedAt>>
  /\ UNCHANGED <<bridgeVars, codecVars, trVars, wsVars, ioVars>>

\* the end of a lock_guard block on g_contextMutex
UnlockContext(t) ==
  /\ MustUnlockContext(t)
  /\ g_contextMutex' = Free
  /\ UNCHANGED <<g_wsHandlerMutex, setws_by, setws_lk, wsLockedAt>>
  /\ UNCHANGED <<bridgeVars, codecVars, trVars, wsVars, ioVars>>

\* the bodies of the blocks on g_contextMutex, run by the thread that holds it
LockedCbLookup(r) == g_contextMutex = CbThread(r) /\ CbLookup(r)
LockedTaskInstall(c) == g_contextMutex = TaskThread(c) /\ TaskInstall(c)
LockedTaskClear(c) == g_contextMutex = TaskThread(c) /\ TaskClear(c)
LockedTaskIsRunning(c) == g_contextMutex = TaskThread(c) /\ TaskIsRunning(c)

\* the try block of c_request_callback, after the lock_guard block: the
\* handler is called and returns its promise
UnlockedCbInvoke(r) ==
  /\ ~MustUnlockContext(CbThread(r))
  /\ setws_by # CbThread(r)
  /\ CbInvoke(r, FALSE)

\* start_server after the block of the start task, stop_server before the
\* block of the stop task
UnlockedTaskStartEngine(c, success) ==
  ~MustUnlockContext(TaskThread(c)) /\ TaskStartEngine(c, success)
UnlockedTaskStopEngine(c) ==
  ~MustUnlockContext(TaskThread(c)) /\ TaskStopEngine(c)

\* thread t calls setWebSocketHandler: the application thread, or the thread
\* of a callback from inside the handler it is running (for c_request_callback
\* that is between the end of its lock_guard block and the handler's return)
SetWsEnter(t) ==
  /\ setws_by = Free
  /\ \/ t = AppThread
     \/ \E conn \in WsConnections : t = WsThread(conn) /\ ws_pc[conn] = "inHandler"
     \/ \E r \in Records :
          t = CbThread(r) /\ cb_pc[r] = "invoke" /\ g_contextMutex # t
  /\ setws_by' = t
  /\ setws_lk' = "want"
  /\ UNCHANGED <<g_contextMutex, g_wsHandlerMutex, wsLockedAt>>
  /\ UNCHANGED <<bridgeVars, codecVars, trVars, wsVars, ioVars>>

\* std::lock_guard<std::mutex> lock(g_wsHandlerMutex) in setWebSocketHandler
SetWsLock ==
  /\ setws_lk = "want"
  /\ g_wsHandlerMutex = Free
  /\ g_wsHandlerMutex' = setws_by
  /\ setws_lk' = "held"
  /\ UNCHANGED <<g_contextMutex, setws_by, wsLockedAt>>
  /\ UNCHANGED <<bridgeVars, codecVars, trVars, wsVars, ioVars>>

\* g_wsHandler = handler inside the block
LockedSetWsStore(h) == setws_lk = "held" /\ SetWebSocketHandlerStore(h)

\* the end of the block of setWebSocketHandler
SetWsUnlock ==
  /\ setws_lk = "held"
  /\ setws_pc = "register"
  /\ g_wsHandlerMutex' = Free
  /\ setws_lk' = "released"
  /\ UNCHANGED <<g_contextMutex, setws_by, wsLockedAt>>
  /\ UNCHANGED <<bridgeVars, codecVars, trVars, wsVars, ioVars>>

\* set_websocket_callback(c_websocket_callback) after the block
UnlockedSetWsRegister == setws_lk = "released" /\ SetWebSocketHandlerRegister

\* setWebSocketHandler returns to its caller
SetWsReturn ==
  /\ setws_lk = "released"
  /\ setws_pc = "idle"
  /\ setws_by' = Free
  /\ setws_lk' = "none"
  /\ UNCHANGED <<g_contextMutex, g_wsHandlerMutex, wsLockedAt>>
  /\ UNCHANGED <<bridgeVars, codecVars, trVars, wsVars, ioVars>>

\* std::lock_guard<std::mutex> lock(g_wsHandlerMutex) in c_websocket_callback
WsLock(conn) ==
  /\ WsLockAt(conn)
  /\ g_wsHandlerMutex = Free
  /\ g_wsHandlerMutex' = WsThread(conn)
  /\ wsLockedAt' = wsDelivered
  /\ UNCHANGED <<g_contextMutex, setws_by, setws_lk>>
  /\ UNCHANGED <<bridgeVars, codecVars, trVars, wsVars, ioVars>>

\* the lookup inside the block
LockedWsLookup(conn, code) ==
  /\ g_wsHandlerMutex = WsThread(conn)
  /\ wsDelivered = wsLockedAt
  /\ WsLookup(conn, code)

\* the end of the block of c_websocket_callback
WsUnlock(conn) ==
  /\ MustUnlockWs(conn)
  /\ g_wsHandlerMutex' = Free
  /\ UNCHANGED <<g_contextMutex, setws_by, setws_lk, wsLockedAt>>
  /\ UNCHANGED <<bridgeVars, codecVars, trVars, wsVars, ioVars>>

\* the rest of c_websocket_callback, which the thread runs unless it is at
\* the end of the block or inside a setWebSocketHandler call of the handler
WsRuns(conn) ==
  /\ ~MustUnlockWs(conn)
  /\ setws_by # WsThread(conn)
  /\ ~(g_wsHandlerMutex = WsThread(conn) /\ wsDelivered = wsLockedAt)

UnlockedWsTranslate(conn) == WsRuns(conn) /\ WsTranslate(conn)
UnlockedWsCall(conn) == WsRuns(conn) /\ WsCall(conn)
UnlockedWsHandlerEnd(conn, throws) == WsRuns(conn) /\ WsHandlerEnd(conn, throws)

\* the record and the connection whose callbacks run, and the handler
\* installed, in the runs about the mutexes
LockRecord == 1
LockConn == "c1"
LockHandler == "h1"

LockCtxThreads == {CbThread(LockRecord)} \cup {TaskThread(c) : c \in Calls}
LockCallers == {AppThread, WsThread(LockConn), CbThread(LockRecord)}

\* the steps a thread takes while it holds g_contextMutex
HoldsContextStep ==
  \/ LockedCbLookup(LockRecord)
  \/ \E c \in Calls : LockedTaskInstall(c)
  \/ \E c \in Calls : LockedTaskClear(c)
  \/ \E c \in Calls : LockedTaskIsRunning(c)
  \/ \E t \in LockCtxThreads : UnlockContext(t)

\* the steps a thread takes while it holds g_wsHandlerMutex
HoldsWsStep ==
  \/ LockedSetWsStore(LockHandler)
  \/ SetWsUnlock
  \/ LockedWsLookup(LockConn, 2)
  \/ WsUnlock(LockConn)

\* a started server: the engine delivers records and WebSocket events, the
\* application (or a handler) calls start, stop, isRunning and
\* setWebSocketHandler, and every thread takes the mutex of the slot it uses
LockNext ==
  \/ CallStart("start", LockHandler)
  \/ CallStop("stop")
  \/ CallIsRunning
  \/ \E t \in LockCtxThreads : LockContext(t)
  \/ HoldsContextStep
  \/ UnlockedCbInvoke(LockRecord)
  \/ \E c \in Calls, success \in BOOLEAN : UnlockedTaskStartEngine(c, success)
  \/ \E c \in Calls : UnlockedTaskStopEngine(c)
  \/ \E t \in LockCallers : SetWsEnter(t)
  \/ SetWsLock
  \/ HoldsWsStep
  \/ UnlockedSetWsRegister
  \/ SetWsReturn
  \/ WsLock(LockConn)
  \/ UnlockedWsTranslate(LockConn)
  \/ UnlockedWsCall(LockConn)
  \/ \E throws \in BOOLEAN : UnlockedWsHandlerEnd(LockConn, throws)

LockSpec == InitStarted /\ [][LockNext]_vars

\* a thread inside a lock_guard block keeps running: the blocks hold
\* assignments and no call that waits.  Nothing is assumed of the handlers,
\* the engine or the pool outside the blocks
LockFairSpec == LockSpec /\ WF_vars(HoldsContextStep) /\ WF_vars(HoldsWsStep)

\* a started server whose handlers have been called and whose application
\* answers with sendBinaryResponse and sends with wsSendBinary from a buffer
\* it goes on using
BinaryNext ==
  \/ \E r \in Records : CbLookup(r)
  \/ \E r \in Records : CbInvoke(r, FALSE)
  \/ \E bytes \in BufferContents : JsWriteBuffer(bytes)
  \/ JsReleaseBuffer
  \/ \E id \in Records :
        CallSendBinaryResponse(id, 200, <<"{", "}">>, BufferCopy(jsBuffer))
  \/ \E conn \in WsConnections : CallWsSendBinary(conn, BufferCopy(jsBuffer))
  \/ \E c \in Calls, ok \in BOOLEAN : TaskSend(c, ok)
  \/ \E c \in Calls, ok \in BOOLEAN : TaskWsSendBinary(c, ok)

BinarySpec == InitStarted /\ [][BinaryNext]_vars

\* ================================================================== claims
\* positions <<id, i>> of the send_response calls made by the dispatch of
\* record r (the listeners of c_request_callback), under whatever id
DispatchSends(r) ==
  {p \in UNION {{<<id, i>> : i \in DOMAIN sendLog[id]} : id \in Records} :
     /\ sendLog[p[1]][p[2]].via = "dispatch"
     /\ sendLog[p[1]][p[2]].origin = r}

\* the handler call for r returned a result, and the result has settled
Settled(r) ==
  \/ outer[r] \in {"response", "rejected"}
  \/ outer[r] = "promise" /\ inner[r] \in {"resolved", "rejected"}

\* the result of the handler call for r rejected
Rejected(r) ==
  \/ outer[r] = "rejected"
  \/ outer[r] = "promise" /\ inner[r] = "rejected"

\* the callback for r has returned and no listener of r is in the middle of
\* registering
Quiet(r) ==
  /\ cb_pc[r] = "returned"
  /\ (outer[r] = "promise" => lst_pc[r] = "done")

\* C1: for records with distinct request ids dispatched concurrently, once a
\* handler result has settled and the registrations have ended, the dispatch
\* path has called send_response exactly once for the record, under the
\* request_id of that record; before that it has called it at most once
C1_ExactlyOnce ==
  \A r \in Records :
    /\ Cardinality(DispatchSends(r)) <= 1
    /\ \A p \in DispatchSends(r) : p[1] = request_id(r)
    /\ (Settled(r) /\ Quiet(r)) => Cardinality(DispatchSends(r)) = 1

\* two records were dispatched concurrently (both callbacks past the lookup
\* before either had a response) and both have their one response
C1_Witness ==
  /\ \A r \in Records : Settled(r) /\ Quiet(r) /\ Cardinality(DispatchSends(r)) = 1
  /\ \E r, q \in Records : r # q /\ outer[r] = "response" /\ outer[q] = "promise"

\* positions <<id, i>> of the send_response calls made by sendResponse and
\* sendBinaryResponse tasks
ExplicitSends ==
  {p \in UNION {{<<id, i>> : i \in DOMAIN sendLog[id]} : id \in Records} :
     sendLog[p[1]][p[2]].via # "dispatch"}

\* C2 as stated: a request id is handed to at most one handler invocation and
\* the engine never sees a second send_response call for it
C2_Original ==
  \A id \in Records : Len(handlerCalls[id]) <= 1 /\ Len(sendLog[id]) <= 1

\* C2 amended: a record is handed to at most one handler invocation and its
\* dispatch calls send_response at most once; every other send_response call
\* is the one call of a sendResponse or sendBinaryResponse task that ran, one
\* per task, made whatever was sent for the id before
C2_DispatchOnceExplicitAdds ==
  /\ \A r \in Records :
       /\ Len(handlerCalls[r]) <= 1
       /\ Cardinality(DispatchSends(r)) <= 1
  /\ \A p \in ExplicitSends :
       LET e == sendLog[p[1]][p[2]] IN
       /\ tasks[e.origin].op = e.via
       /\ tasks[e.origin].pc = "done"
       /\ \A q \in ExplicitSends : sendLog[q[1]][q[2]].origin = e.origin => q = p
  /\ \A c \in Calls :
       (tasks[c].op \in {"sendResponse", "sendBinaryResponse"} /\ tasks[c].pc = "done")
         => \E p \in ExplicitSends : sendLog[p[1]][p[2]].origin = c

\* the engine saw two send_response calls for one id: the dispatch's and a
\* sendResponse task's
C2_Witness ==
  \E r \in Records :
    /\ Cardinality(DispatchSends(r)) = 1
    /\ Len(sendLog[request_id(r)]) = 2
    /\ \E p \in ExplicitSends : p[1] = request_id(r)

\* C3: when the result of the handler call rejected (responsePromise, or the
\* Promise<HttpResponse> it resolved to), every send_response call of the
\* dispatch is the 500 "Internal Server Error" response with no headers, and
\* once the registrations have ended there is exactly one
C3_RejectionAnswered500 ==
  \A r \in Records :
    Rejected(r) =>
      /\ \A p \in DispatchSends(r) :
           /\ p[1] = request_id(r)
           /\ sendLog[p[1]][p[2]].statusCode = 500
           /\ sendLog[p[1]][p[2]].body = "Internal Server Error"
           /\ sendLog[p[1]][p[2]].headersJson = <<"{", "}">>
      /\ Quiet(r) => Cardinality(DispatchSends(r)) = 1

\* both kinds of rejection were answered
C3_Witness ==
  \E r, q \in Records :
    /\ outer[r] = "rejected" /\ outer[q] = "promise" /\ inner[q] = "rejected"
    /\ Quiet(r) /\ Quiet(q)
    /\ Cardinality(DispatchSends(r)) = 1 /\ Cardinality(DispatchSends(q)) = 1

\* the slot is empty by its history: never written, or last written by the
\* clear of a stop task or by the destructor
SlotClearedOrUnset == slotOps.kind # "install"

\* the callback for r returned from its lookup without a handler
Abandoned(r) == cb_pc[r] = "returned" /\ cb_handler[r] = NoHandler

\* C4: a callback whose locked lookup finds the slot empty (never written,
\* cleared by stop/stopAppServer, or destroyed) returns in that step having
\* released the record once, and the record never gets a handler invocation
\* nor a send_response call from the dispatch
C4_AbandonWhenEmpty ==
  /\ [][\A r \in Records :
          (cb_pc[r] = "idle" /\ cb_pc'[r] # "idle" /\ SlotClearedOrUnset)
            => /\ cb_pc'[r] = "returned"
               /\ freed'[r] = freed[r] + 1
               /\ cb_handler'[r] = NoHandler
               /\ handlerCalls' = handlerCalls
               /\ sendLog' = sendLog]_vars
  /\ [](\A r \in Records :
          Abandoned(r) =>
            /\ freed[r] = 1
            /\ handlerCalls[r] = <<>>
            /\ DispatchSends(r) = {}
            /\ outer[r] = "none")

\* a record abandoned after a stop task cleared an installed handler, while
\* another record had been dispatched before the stop
C4_Witness ==
  \E r, q \in Records :
    /\ Abandoned(r) /\ freed[r] = 1
    /\ slotOps.kind = "clear"
    /\ handlerCalls[q] # <<>>

\* the handler call for r threw
Threw(r) == cb_pc[r] = "returned" /\ handlerCalls[r] # <<>> /\ outer[r] = "none"

\* C5: when the handler call throws, the callback returns in that step (the
\* record released), the slot and the other records' callbacks are as they
\* were, and the dispatch never calls send_response for the record
C5_ThrowSwallowed ==
  /\ [][\A r \in Records :
          (cb_pc[r] = "invoke" /\ cb_pc'[r] = "returned")
            => /\ g_serverContext' = g_serverContext
               /\ sendLog' = sendLog
               /\ freed'[r] = freed[r] + 1
               /\ \A q \in Records \ {r} :
                    cb_pc'[q] = cb_pc[q] /\ outer'[q] = outer[q]]_vars
  /\ [](\A r \in Records : Threw(r) => DispatchSends(r) = {} /\ freed[r] = 1)

\* a handler call threw, and a record dispatched to the same handler
\* afterwards got its response
C5_Witness ==
  \E r, q \in Records :
    /\ Threw(r)
    /\ DispatchSends(r) = {}
    /\ handlerCalls[q] = handlerCalls[r]
    /\ Cardinality(DispatchSends(q)) = 1
    /\ g_serverContext.handler = cb_handler[r]

\* the callback for r is between its handler call and its return
CbRunning(r) == cb_pc[r] \in {"invoke", "addResolved", "inListener", "addRejected"}

\* C6: the callback never waits for the handler's result: when the thread
\* of the callback is scheduled, every callback that called its handler
\* returns, also in the behaviours where the result never settles; and while
\* the result is unsettled the dispatch has sent nothing
C6_NeverWaits ==
  /\ \A r \in Records : CbRunning(r) ~> cb_pc[r] = "returned"
  /\ [](\A r \in Records : ~Settled(r) => DispatchSends(r) = {})

\* the callback returned although the result never settled: pending
\* responsePromise for one record, pending Promise<HttpResponse> for another
C6_Witness ==
  \E r, q \in Records :
    /\ cb_pc[r] = "returned" /\ outer[r] = "pending"
    /\ cb_pc[q] = "returned" /\ outer[q] = "promise" /\ inner[q] = "pending"
    /\ DispatchSends(r) = {} /\ DispatchSends(q) = {}

\* C7: one slot serves start, startAppServer and startServerWithConfig: the
\* handler a lookup copies is the one written by the latest install of any of
\* the three, so after h2 was installed over h1 a lookup copies h2; and a
\* record is handed to one handler only, the one its lookup copied
C7_LastInstallWins ==
  /\ [][\A r \in Records :
          (cb_pc[r] = "idle" /\ cb_pc'[r] = "invoke")
            => /\ slotOps.kind = "install"
               /\ cb_handler'[r] = slotOps.handler]_vars
  /\ [][\A c \in Calls :
          (tasks[c].op \in StartOps /\ tasks[c].pc = "install" /\ tasks'[c].pc = "engine")
            => g_serverContext'.handler = tasks[c].handler]_vars
  /\ [](\A r \in Records :
          /\ Len(handlerCalls[r]) <= 1
          /\ \A i \in DOMAIN handlerCalls[r] : handlerCalls[r][i] = cb_handler[r])

\* two start operations of different kinds installed h1 and then h2; a record
\* looked up before the second install went to h1, one looked up after to h2
C7_Witness ==
  \E r, q \in Records, c, d \in Calls :
    /\ tasks[c].op = "start" /\ tasks[c].pc = "done"
    /\ tasks[d].op = "startAppServer" /\ tasks[d].pc = "done"
    /\ handlerCalls[r] = <<"h1">>
    /\ handlerCalls[q] = <<"h2">>
    /\ slotOps = [kind |-> "install", handler |-> "h2"]

Chars(str) == {str[i] : i \in DOMAIN str}

\* C9: header round trip: the header parser applied to the string
\* serializeHeaders produced for a mapping (in any iteration order) yields
\* that mapping, quotes and backslashes in names and values included
C9_RoundTrip == codec_pc = "decoded" => hdrOut = hdrIn

\* a mapping of two headers, a value holding both a quote and a backslash,
\* came back unchanged
C9_Witness ==
  /\ codec_pc = "decoded"
  /\ Cardinality(DOMAIN hdrIn) = 2
  /\ \E k \in DOMAIN hdrIn : {QUOTE, BSLASH} \subseteq Chars(hdrIn[k])
  /\ hdrOut = hdrIn

\* the header string {"a":"b" : well-formed pairs, closing brace missing
MissingBrace == <<"{", QUOTE, "a", QUOTE, ":", QUOTE, "b", QUOTE>>

Translated == tr_pc = "called"

FirstPairs(headers, order, n) == [k \in {order[j] : j \in 1..n} |-> headers[k]]

\* C18: when headers_json starts with '{', ends with '}' and deviates from
\* the object form at one pair (key or value without quotes, or a string
\* never closed), the request the handler is called with holds exactly the
\* pairs before that pair, and the handler call follows the translation
C18_StopsAtDeviation ==
  (codec_pc = "corrupted" /\ tr_pc # "none") =>
    /\ cRequest.headers_json = hdrJson
    /\ HasBraces(hdrJson)
    /\ tr_pc \in {"translated", "called"} =>
         request.headers = FirstPairs(hdrIn, hdrOrder, hdrIntact)
    /\ tr_pc = "translated" => ENABLED CbHandlerCall

\* a pair was kept, the deviating pair and the well-formed one after it were
\* dropped, and the handler was called
C18_Witness ==
  /\ codec_pc = "corrupted"
  /\ tr_pc = "called"
  /\ hdrIntact >= 1
  /\ DOMAIN request.headers # {}
  /\ DOMAIN request.headers # DOMAIN hdrIn

\* positions in the log of conn of the event the callback of conn was called with
WsEntries(conn) ==
  {i \in DOMAIN wsHandled[conn] : wsHandled[conn][i].seq = ws_event[conn].seq}

\* the callback of conn was called with an event, found a handler and is back
WsDone(conn) ==
  /\ ws_event[conn].seq > 0
  /\ ws_pc[conn] \in {"returned", "caught"}
  /\ ws_handler[conn] # NoHandler

\* C12: a callback that found a handler and has returned has invoked it
\* exactly once, with OPEN, MESSAGE, CLOSE, ERROR for event_type 1, 2, 3, 4,
\* and not at all for any other event_type; no event is ever handled twice
C12_EventMapping ==
  \A conn \in WsConnections :
    /\ Cardinality(WsEntries(conn)) <= 1
    /\ WsDone(conn) =>
         LET code == ws_event[conn].event_type IN
         IF code \in 1..4
         THEN \E i \in WsEntries(conn) :
                /\ WsEntries(conn) = {i}
                /\ wsHandled[conn][i].type = <<"OPEN", "MESSAGE", "CLOSE", "ERROR">>[code]
         ELSE WsEntries(conn) = {}

\* one callback returned from an ERROR event (4) it handled, the other from
\* an event of code 5 it dropped
C12_Witness ==
  \E c1, c2 \in WsConnections :
    /\ WsDone(c1) /\ ws_event[c1].event_type = 4
    /\ \E i \in WsEntries(c1) : wsHandled[c1][i].type = "ERROR"
    /\ WsDone(c2) /\ ws_event[c2].event_type = 5 /\ WsEntries(c2) = {}

\* C19: no handler invocation of a connection is still running when the
\* callback of that connection is back with the engine, so the handler sees
\* the events of one connection in the order the engine delivered them
C19_InOrderPerConnection ==
  \A conn \in WsConnections :
    /\ WsReturned(conn) => ~wsRunning[conn]
    /\ \A i, j \in DOMAIN wsHandled[conn] :
         i < j => wsHandled[conn][i].seq < wsHandled[conn][j].seq

\* the handler runs for two connections at once, for one of them on its
\* second event
C19_Witness ==
  /\ \A conn \in WsConnections : wsRunning[conn]
  /\ \E conn \in WsConnections : Len(wsHandled[conn]) = 2

\* C20: a throw of the handler leaves the slot as it was and the callback
\* returns; the next event of the connection is taken up with a handler, and
\* events delivered later to other connections reach the handler
C20_WsThrowSwallowed ==
  /\ [][\A conn \in WsConnections :
         /\ (ws_pc[conn] = "inHandler" /\ ws_pc'[conn] = "caught")
              => g_wsHandler' = g_wsHandler
         /\ (ws_pc[conn] = "caught" /\ ws_pc'[conn] # "caught")
              => (ws_pc'[conn] = "translate" /\ ws_handler'[conn] \in Handlers)]_vars
  /\ [](\A conn \in WsConnections :
         ws_pc[conn] = "caught" =>
           /\ ~wsRunning[conn]
           /\ g_wsHandler \in Handlers
           /\ \A other \in WsConnections :
                (/\ ws_event[other].seq > ws_event[conn].seq
                 /\ WsDone(other)
                 /\ ws_event[other].event_type \in 1..4)
                  => WsEntries(other) # {})

\* the handler threw on one connection and handled a later event of the other
C20_Witness ==
  \E conn, other \in WsConnections :
    /\ ws_pc[conn] = "caught"
    /\ ws_event[other].seq > ws_event[conn].seq
    /\ WsDone(other)
    /\ WsEntries(other) # {}

\* positions in engineLog of the calls made by the task of call c
CallsOf(c) == {i \in DOMAIN engineLog : engineLog[i].origin = c}

\* C13: the write_response_chunk and end_response calls the engine sees for
\* one requestId come in the order writeResponseChunk and endResponse were
\* called for it (a, b, c, then the end), each exactly once
C13_StreamingOrder ==
  /\ \A c \in Calls : Cardinality(CallsOf(c)) <= 1
  /\ \A i, j \in DOMAIN engineLog :
       (/\ i < j
        /\ engineLog[i].id = engineLog[j].id
        /\ engineLog[i].fn \in {"write_response_chunk", "end_response"}
        /\ engineLog[j].fn \in {"write_response_chunk", "end_response"})
         => engineLog[i].origin < engineLog[j].origin

\* C14: a completed readRequestBodyChunk made exactly one
\* read_request_body_chunk call, with limit 65536; its promise is rejected
\* when the engine returned a negative count, holds the empty string when it
\* returned 0, and otherwise holds the first n bytes of the buffer of that
\* call for the n <= 65536 the engine returned; a task that has not run has
\* made no call
C14_ReadChunk ==
  \A c \in Calls :
    tasks[c].op = "readRequestBodyChunk" =>
      IF tasks[c].pc # "done" THEN CallsOf(c) = {}
      ELSE
        /\ \E i \in CallsOf(c) :
             /\ CallsOf(c) = {i}
             /\ engineLog[i].fn = "read_request_body_chunk"
             /\ engineLog[i].args.max_len = 65536
             /\ engineLog[i].ret = engineRet[c]
        /\ LET n == engineRet[c] IN
           IF n < 0 THEN tasks[c].result.state = "rejected"
           ELSE IF n = 0
           THEN /\ tasks[c].result.state = "resolved"
                /\ tasks[c].result.value.len = 0
           ELSE /\ tasks[c].result.state = "resolved"
                /\ tasks[c].result.value = [buffer |-> c, len |-> n]
                /\ n <= 65536

\* one read failed and was rejected, another filled the whole buffer
C14_Witness ==
  \E c, d \in Calls :
    /\ tasks[c].op = "readRequestBodyChunk" /\ tasks[c].pc = "done"
    /\ engineRet[c] = -1 /\ tasks[c].result.state = "rejected"
    /\ tasks[d].op = "readRequestBodyChunk" /\ tasks[d].pc = "done"
    /\ engineRet[d] = 65536 /\ tasks[d].result.value.len = 65536

\* positions <<id, i>> of the send_response calls made by the task of call c
SendsOf(c) ==
  {p \in UNION {{<<id, i>> : i \in DOMAIN sendLog[id]} : id \in Records} :
     /\ sendLog[p[1]][p[2]].via \in {"sendResponse", "sendBinaryResponse"}
     /\ sendLog[p[1]][p[2]].origin = c}

\* C15: the body of every send_response call of a sendBinaryResponse task,
\* and the data of every ws_send_binary call, are the bytes the buffer held
\* when the method was called, whatever the application has done to the
\* buffer since
C15_BinaryCopy ==
  /\ \A c \in Calls : \A p \in SendsOf(c) :
       sendLog[p[1]][p[2]].via = "sendBinaryResponse"
         => sendLog[p[1]][p[2]].body = callArgs[c].body
  /\ \A i \in DOMAIN engineLog :
       engineLog[i].fn = "ws_send_binary"
         => engineLog[i].args.data = callArgs[engineLog[i].origin].body

\* bytes "x" reached the engine from a buffer that has been released
C15_Witness ==
  /\ ~jsBuffer.live
  /\ \/ \E i \in DOMAIN engineLog :
          engineLog[i].fn = "ws_send_binary" /\ engineLog[i].args.data = "x"
     \/ \E c \in Calls : \E p \in SendsOf(c) :
          /\ sendLog[p[1]][p[2]].via = "sendBinaryResponse"
          /\ sendLog[p[1]][p[2]].body = "x"

WsSendOps == {"wsSendText", "wsSendBinary", "wsClose"}

\* C16 as stated: every completed wsSendText, wsSendBinary and wsClose has
\* made exactly one engine call
C16_Original ==
  \A c \in Calls :
    (tasks[c].op \in WsSendOps /\ tasks[c].pc = "done")
      => Cardinality(CallsOf(c)) = 1

\* the engine call a WebSocket send method is to make for its arguments
WsExpected(a) ==
  CASE a.method = "wsSendText" ->
         [fn |-> "ws_send_text", id |-> a.connectionId,
          args |-> [message |-> a.message]]
    [] a.method = "wsSendBinary" ->
         [fn |-> "ws_send_binary", id |-> a.connectionId,
          args |-> [data |-> a.body]]
    [] a.method = "wsClose" ->
         [fn |-> "ws_close", id |-> a.connectionId,
          args |-> [code |-> IF a.code = <<>> THEN 1000 ELSE a.code[1],
                    reason |-> IF a.reason = <<>> THEN "" ELSE a.reason[1]]]

\* C16 amended: a completed wsSendText, wsClose, or wsSendBinary of a
\* non-empty buffer has made exactly one engine call, the one for its
\* arguments (code 1000 and reason "" when omitted), and resolved to what the
\* engine returned; a wsSendBinary of an empty buffer has made no engine call
\* and resolved to false; a task that has not run has made no call
C16_PassThrough ==
  \A c \in Calls :
    tasks[c].op \in WsSendOps =>
      IF tasks[c].pc # "done" THEN CallsOf(c) = {}
      ELSE IF tasks[c].op = "wsSendBinary" /\ callArgs[c].body = ""
      THEN CallsOf(c) = {} /\ tasks[c].result = "false"
      ELSE \E i \in CallsOf(c) :
             /\ CallsOf(c) = {i}
             /\ engineLog[i].fn = WsExpected(callArgs[c]).fn
             /\ engineLog[i].id = WsExpected(callArgs[c]).id
             /\ engineLog[i].args = WsExpected(callArgs[c]).args
             /\ engineLog[i].ret = tasks[c].result
             /\ engineLog[i].ret \in {"true", "false"}

\* a wsClose without code and reason reached the engine as (1000, ""), and a
\* wsSendBinary of an empty buffer resolved to false without a call
C16_Witness ==
  \E c, d \in Calls :
    /\ tasks[c].op = "wsClose" /\ tasks[c].pc = "done"
    /\ callArgs[c].code = <<>> /\ callArgs[c].reason = <<>>
    /\ \E i \in CallsOf(c) : engineLog[i].args = [code |-> 1000, reason |-> ""]
    /\ tasks[d].op = "wsSendBinary" /\ tasks[d].pc = "done"
    /\ CallsOf(d) = {} /\ tasks[d].result = "false"

\* the methods whose task asks the engine once and resolves to its answer
BoolMethods ==
  {"sendResponse", "sendBinaryResponse", "writeResponseChunk", "endResponse"}

\* the engine function each of these methods calls
EngineFn(op) ==
  IF op = "writeResponseChunk" THEN "write_response_chunk"
  ELSE IF op = "endResponse" THEN "end_response"
  ELSE "send_response"

\* number of engine calls made so far by the task of call c
EngineCallsBy(c) == Cardinality(SendsOf(c)) + Cardinality(CallsOf(c))

\* C17: a sendResponse, sendBinaryResponse, writeResponseChunk or endResponse
\* task that has not run has made no engine call; one that has run has made
\* exactly one, to the function of its method, and its promise holds exactly
\* the boolean the engine returned, false included; and the dispatch of a
\* record has made at most one send_response call, exactly one once the
\* handler's response has been forwarded
C17_FalseSurfacedOnce ==
  /\ \A c \in Calls :
       tasks[c].op \in BoolMethods =>
         IF tasks[c].pc # "done" THEN EngineCallsBy(c) = 0
         ELSE
           /\ EngineCallsBy(c) = 1
           /\ engineRet[c] \in {"true", "false"}
           /\ tasks[c].result = engineRet[c]
           /\ IF EngineFn(tasks[c].op) = "send_response"
              THEN \A p \in SendsOf(c) : sendLog[p[1]][p[2]].via = tasks[c].op
              ELSE \A i \in CallsOf(c) :
                     /\ engineLog[i].fn = EngineFn(tasks[c].op)
                     /\ engineLog[i].ret = engineRet[c]
  /\ \A r \in Records :
       /\ Cardinality(DispatchSends(r)) <= 1
       /\ (Settled(r) /\ Quiet(r)) => Cardinality(DispatchSends(r)) = 1

\* the engine answered false to the one call of a task, the promise of the
\* task holds false, and a dispatched response was forwarded
C17_Witness ==
  /\ \E c \in Calls :
       /\ tasks[c].op \in BoolMethods
       /\ tasks[c].pc = "done"
       /\ engineRet[c] = "false" /\ tasks[c].result = "false"
       /\ EngineCallsBy(c) = 1
  /\ \E r \in Records : Settled(r) /\ Quiet(r) /\ DispatchSends(r) # {}

\* C21: the record of every callback that has returned has been released
\* with free_http_request exactly once, whichever way the callback went (slot
\* empty, handler called and listeners registered, handler call throwing);
\* the record of a callback that has not returned has not been released
C21_FreedExactlyOnce ==
  \A r \in Records :
    /\ freed[r] <= 1
    /\ (cb_pc[r] = "returned") <=> (freed[r] = 1)

\* one callback found the slot empty and returned without a handler call,
\* another called the handler and returned, both with the record released
C21_Witness ==
  \E r, s \in Records :
    /\ cb_pc[r] = "returned" /\ handlerCalls[r] = <<>> /\ freed[r] = 1
    /\ cb_pc[s] = "returned" /\ handlerCalls[s] # <<>> /\ freed[s] = 1

\* call c is stop(), the later call d is start(h), and no other call writes
\* the slot
StopThenStart(c, d) ==
  /\ c < d
  /\ tasks[c].op = "stop"
  /\ tasks[d].op = "start"
  /\ \A e \in Calls \ {c, d} : tasks[e].op \notin StartOps \cup StopOps

\* C22: when stop() was called and start(h) after it, and both tasks have
\* completed with start resolved to true, a handler is installed: isRunning
\* reads true and the lookup of c_request_callback copies a handler instead
\* of abandoning the record
C22_StartAfterStopInstalls ==
  \A c, d \in Calls :
    (/\ StopThenStart(c, d)
     /\ tasks[c].pc = "done"
     /\ tasks[d].pc = "done" /\ tasks[d].result = "true")
      => /\ IsRunningRead(g_serverContext)
         /\ ~SlotEmpty(g_serverContext)

\* a stop or stopAppServer task has completed, and its clear is the last
\* write to the slot
StopCompletedLast ==
  /\ slotOps.kind = "clear"
  /\ \E c \in Calls : tasks[c].op \in StopOps /\ tasks[c].pc = "done"

\* C23 as stated: once a stop or stopAppServer task has completed (and no
\* start has installed a handler since), no c_request_callback invokes a
\* handler, the callbacks that entered before the clear included
C23_Original ==
  [][StopCompletedLast => handlerCalls' = handlerCalls]_vars

\* C23: once a stop or stopAppServer task has completed (and no start has
\* installed a handler since), a callback whose lookup runs finds the slot
\* empty and returns without invoking anything; the only invocations still
\* made are by callbacks that copied the handler before the clear, each of
\* which invokes its copy once
C23_OnlyCopiesInvokeAfterStop ==
  [][StopCompletedLast =>
       \A r \in Records :
         /\ (cb_pc[r] = "idle" /\ cb_pc'[r] # "idle")
              => /\ cb_pc'[r] = "returned"
                 /\ cb_handler'[r] = NoHandler
                 /\ handlerCalls'[r] = <<>>
         /\ (handlerCalls'[r] # handlerCalls[r])
              => /\ cb_pc[r] = "invoke"
                 /\ cb_handler[r] \in Handlers
                 /\ handlerCalls[r] = <<>>
                 /\ handlerCalls'[r] = <<cb_handler[r]>>]_vars

\* a stop task has completed while one callback holds the copy it took
\* before the clear and is about to invoke it, and another callback, whose
\* lookup came after the clear, has abandoned its record
C23_Witness ==
  /\ StopCompletedLast
  /\ \E r, q \in Records :
       /\ cb_pc[r] = "invoke" /\ cb_handler[r] \in Handlers
       /\ Abandoned(q) /\ handlerCalls[q] = <<>>

\* thread t holds neither mutex
HoldsNoMutex(t) == g_contextMutex # t /\ g_wsHandlerMutex # t

\* C24: at the step that invokes the HTTP handler or the WebSocket handler
\* the invoking thread holds neither g_contextMutex nor g_wsHandlerMutex,
\* and in every interleaving of the callbacks with the tasks of start, stop
\* and isRunning and with setWebSocketHandler, called by the application or
\* from inside a running handler, a mutex that is held gets released, so no
\* thread waits for one for ever
C24_NoDeadlock ==
  /\ [][/\ \A r \in Records :
            handlerCalls'[r] # handlerCalls[r] => HoldsNoMutex(CbThread(r))
        /\ \A conn \in WsConnections :
            (ws_pc[conn] # "inHandler" /\ ws_pc'[conn] = "inHandler")
              => HoldsNoMutex(WsThread(conn))]_vars
  /\ (g_contextMutex # Free) ~> (g_contextMutex = Free)
  /\ (g_wsHandlerMutex # Free) ~> (g_wsHandlerMutex = Free)

\* the WebSocket handler is running and has called setWebSocketHandler,
\* which holds g_wsHandlerMutex on the callback's thread, while a task holds
\* g_contextMutex and a request callback waits for it
C24_Witness ==
  /\ ws_pc[LockConn] = "inHandler"
  /\ setws_by = WsThread(LockConn)
  /\ setws_lk = "held"
  /\ g_wsHandlerMutex = WsThread(LockConn)
  /\ \E c \in Calls : g_contextMutex = TaskThread(c)
  /\ CtxLockAt(CbThread(LockRecord))

====
